---- MODULE Spec2Model ----
(***************************************************************************)
(* The debate chamber of src/App.tsx (the last App component of the file,  *)
(* lines 362-1000, with skip-turn, skip-to-voting and the AI judge) and    *)
(* the service wrappers it calls (src/unnamed/part_001, lines 162-450).    *)
(*                                                                         *)
(* One step of the model is one task of the browser's event loop: a click, *)
(* a network response, the end of a decode, an onended event.  The two     *)
(* Promise.race calls of the playback loop are settled by such a task and  *)
(* the loop resumes in the microtask that follows; the resumption is a     *)
(* step of its own (Resume...), and while it is pending no other task      *)
(* runs (Quiet), as in the event loop.                                     *)
(*                                                                         *)
(* The first App component of the file (lines 7-354) has the playback loop *)
(* with pipelining and no interrupts; its handleStartDebate and runDebate  *)
(* are the actions named ...V1, and PipelineSpec is their specification.   *)
(***************************************************************************)
EXTENDS Integers, Sequences, FiniteSets, TLC

VARIABLES
    phase,                 \* useState DebatePhase
    question,              \* useState question
    messages,              \* useState DebateMessage[]
    error,                 \* useState error
    speakingMessageIndex,  \* useState speakingMessageIndex
    summary,               \* useState summary
    comparison,            \* useState comparison
    userVote,              \* useState userVote
    scoreData,             \* useState scoreData
    audioContextRef,       \* useRef AudioContext: TRUE once created
    currentAudioSourceRef, \* useRef AudioBufferSourceNode: a source id or NoSource
    isSkippedRef,          \* useRef isSkippedRef
    skipTrigger,           \* useRef skipTrigger: the interruptPromise whose resolver it holds, or NoHandoff
    pc,                    \* where handleStartDebate/runDebate/handleVote is suspended
    generatedMessages,     \* runDebate local
    currentHistory,        \* runDebate local
    fullText,              \* runDebate local, of the turn being streamed
    sources,               \* runDebate local, of the turn being streamed
    sourceUris,            \* runDebate local, of the turn being streamed
    received,              \* history: the chunks the open stream has delivered, in order
    delivered,             \* history: the number of chunks of the streams of PART 1 that
                           \* have ended
    turn,                  \* runDebate local: the element of debateTurns PART 1 is at
    i,                     \* runDebate local: index of the playback loop
    race,                  \* the Promise.race the playback loop awaits: "pending" or what settled it
    summaryReq,            \* generateDebateSummary request of Promise.all
    comparisonReq,         \* generateArgumentComparison request of Promise.all
    speechReqs,            \* generateSpeech requests in flight (awaited or abandoned)
    decodes,               \* decodeAudioData calls in flight, one per playAudio call
    playing,               \* buffer sources started and sounding
    stopped,               \* buffer sources stopped whose onended event is not yet dispatched
    skips,                 \* history: the clicks on skip-turn since the playback loop
                           \* started, each with the turn and the await the loop was at
    nextAudioPromise,      \* runDebate local of the pipelined loop: the turn whose audio
                           \* request it holds, or NoPromise
    audioResults,          \* what the request held by nextAudioPromise settled with, until
                           \* the loop awaits it
    audioRequests          \* history: the turns generateSpeech was called for by the
                           \* pipelined loop of this run, in order

vars == <<phase, question, messages, error, speakingMessageIndex, summary, comparison,
          userVote, scoreData, audioContextRef, currentAudioSourceRef, isSkippedRef,
          skipTrigger, pc, generatedMessages, currentHistory, fullText, sources,
          sourceUris, received, delivered, turn, i, race, summaryReq, comparisonReq,
          speechReqs, decodes, playing, stopped, skips, nextAudioPromise, audioResults,
          audioRequests>>

uiVars == <<phase, question, messages, error, speakingMessageIndex, summary, comparison,
            userVote, scoreData>>
textVars == <<generatedMessages, currentHistory, fullText, sources, sourceUris, received,
             delivered, turn>>
analysisVars == <<summaryReq, comparisonReq>>
audioVars == <<speechReqs, decodes, playing, stopped>>
\* the state of the pipelined playback loop, which the loop with interrupts has not
pipelineVars == <<nextAudioPromise, audioResults, audioRequests>>

NULL == "null"
\* speakingMessageIndex when null (an index is a number from 3 on)
NoIndex == 0 - 1
\* An audio request, a decode or a buffer source of the current debate is named by
\* its turn, 0 to 5, as long as the playback loop runs.  Those that are still in
\* flight when the loop has ended are told apart only as far as the program can
\* tell them apart: the source that currentAudioSourceRef points to (OldRef), and
\* all the others (Old).
Old == 0 - 1
OldRef == 0 - 2
\* currentAudioSourceRef when null
NoSource == 0 - 3
\* skipTrigger when null (an interruptPromise is named by the turn that created it)
NoHandoff == 0 - 1
\* nextAudioPromise when null (a promise is named by the turn it is requested for)
NoPromise == 0 - 4
\* scoreData when null (a verdict is a record)
NoScoreData == [winner |-> NULL]
\* turn before the first loop of PART 1 (a turn is a record)
NoTurn == [persona |-> NULL, stage |-> NULL]

\* ----------------------------------------------------------------- bounds
\* characters of turn text streamed in one debate
MaxText == 2
\* chunks of the streams of one debate
MaxChunks == 2
\* citation candidates of one debate, those of a chunk counted when the chunk arrives
MaxCitations == 2
\* clicks on skip-turn in one debate
MaxSkips == 1

\* ------------------------------------------------------------ program data
Logos == "Logos"
Pathos == "Pathos"
SYSTEM == "SYSTEM"

IDLE == "IDLE"
ANALYZING == "ANALYZING"
DEBATING == "DEBATING"
VOTING == "VOTING"
SCORING == "SCORING"
FINISHED == "FINISHED"

debateTurns ==
    << [persona |-> Logos,  stage |-> "OPENING"],
       [persona |-> Pathos, stage |-> "OPENING"],
       [persona |-> Logos,  stage |-> "REBUTTAL"],
       [persona |-> Pathos, stage |-> "REBUTTAL"],
       [persona |-> Logos,  stage |-> "CLOSING"],
       [persona |-> Pathos, stage |-> "CLOSING"] >>

\* Texts are sequences of characters.
Str(s) == <<s>>

\* What the user may type, what the service may answer.
Questions == { <<>>, <<" ">>, <<"q">> }
StancePairs == { [sideA |-> Str("p"), sideB |-> Str("c")] }

\* A chunk of a stream: its text and the web entries of its groundingChunks.  An entry
\* without uri, or without title, has the empty string there; a chunk without
\* grounding metadata has no entries.
Chunk(text, web) == [text |-> text, web |-> web]
Web(uri, title) == [uri |-> uri, title |-> title]
\* chunks that carry text only
Fragments == { Chunk(Str("a"), <<>>) }
\* chunks that carry nothing
Silent == { Chunk(<<>>, <<>>) }
\* chunks of a stream with web search
Cited ==
    { Chunk(Str("a"), <<>>),
      Chunk(Str("b"), <<>>),
      Chunk(<<>>, << Web("u", "t") >>),
      Chunk(Str("a"), << Web("u", "s") >>),
      Chunk(<<>>, << Web("v", "") >>),
      Chunk(Str("b"), << Web("", "t") >>),
      Chunk(<<>>, << Web("v", "s"), Web("u", "t") >>),
      Chunk(<<>>, << Web("u", "t"), Web("u", "s") >>) }

IsSpace(c) == c = " "

RECURSIVE TrimStart(_)
TrimStart(s) ==
    IF s # <<>> /\ IsSpace(Head(s)) THEN TrimStart(Tail(s)) ELSE s

RECURSIVE TrimEnd(_)
TrimEnd(s) ==
    IF s # <<>> /\ IsSpace(s[Len(s)]) THEN TrimEnd(SubSeq(s, 1, Len(s) - 1)) ELSE s

\* String.prototype.trim
Trim(s) == TrimEnd(TrimStart(s))

systemMessages(q, sideA, sideB) ==
    << [persona |-> SYSTEM, text |-> Str("Topic: \"") \o q \o Str("\"")],
       [persona |-> SYSTEM, text |-> Str("Logos will argue: \"") \o sideA \o Str("\"")],
       [persona |-> SYSTEM, text |-> Str("Pathos will argue: \"") \o sideB \o Str("\"")] >>

\* A message without sources (sources undefined) has the empty list here.
tempMessage(persona) ==
    [persona |-> persona, text |-> Str("..."), isStreaming |-> TRUE, sources |-> <<>>]

\* A finished message that still shows as streaming
finalMessageStreaming(persona, text, srcs) ==
    [persona |-> persona, text |-> text, isStreaming |-> TRUE, sources |-> srcs]

finalMessage(persona, text, srcs) ==
    [persona |-> persona, text |-> text, isStreaming |-> FALSE, sources |-> srcs]

RECURSIVE TextLen(_)
TextLen(msgs) ==
    IF msgs = <<>> THEN 0 ELSE Len(Head(msgs).text) + TextLen(Tail(msgs))

RECURSIVE SourceCount(_)
SourceCount(msgs) ==
    IF msgs = <<>> THEN 0 ELSE Len(Head(msgs).sources) + SourceCount(Tail(msgs))

\* A loop over the groundingChunks that takes every entry with a uri
RECURSIVE pushSourcesAll(_, _, _)
pushSourcesAll(srcs, uris, web) ==
    IF web = <<>> THEN [sources |-> srcs, sourceUris |-> uris]
    ELSE LET source == Head(web) IN
         IF source.uri # ""
         THEN pushSourcesAll(Append(srcs, [uri |-> source.uri,
                                           title |-> IF source.title # "" THEN source.title
                                                     ELSE source.uri]),
                             uris \cup {source.uri}, Tail(web))
         ELSE pushSourcesAll(srcs, uris, Tail(web))

\* The loop over the groundingChunks of one chunk: the sources and the uris seen
\* after it, from those before it.
RECURSIVE pushSources(_, _, _)
pushSources(srcs, uris, web) ==
    IF web = <<>> THEN [sources |-> srcs, sourceUris |-> uris]
    ELSE LET source == Head(web) IN
         IF source.uri # "" /\ source.uri \notin uris
         THEN pushSources(Append(srcs, [uri |-> source.uri,
                                        title |-> IF source.title # "" THEN source.title
                                                  ELSE source.uri]),
                          uris \cup {source.uri}, Tail(web))
         ELSE pushSources(srcs, uris, Tail(web))

\* The audio request, decode or source of the turn the playback loop is at
CurId == i

\* The requests and decodes in flight when the playback loop ends
Aged(ids) == { Old : id \in ids }

\* The sources that sound or are stopped when the playback loop ends
AgedSources(ids) == { IF id = currentAudioSourceRef THEN OldRef ELSE Old : id \in ids }

\* The objects in flight when currentAudioSourceRef is set to another source or null
Unref(ids) == { IF id = OldRef THEN Old ELSE id : id \in ids }

\* No continuation of the playback loop is waiting in the microtask queue.
Quiet == race \in {"none", "pending"}

\* ------------------------------------------------------------------- Init
Init ==
    /\ phase = IDLE
    /\ question = <<>>
    /\ messages = <<>>
    /\ error = NULL
    /\ speakingMessageIndex = NoIndex
    /\ summary = NULL
    /\ comparison = NULL
    /\ userVote = NULL
    /\ scoreData = NoScoreData
    /\ audioContextRef = FALSE
    /\ currentAudioSourceRef = NoSource
    /\ isSkippedRef = FALSE
    /\ skipTrigger = NoHandoff
    /\ pc = "idle"
    /\ generatedMessages = <<>>
    /\ currentHistory = <<>>
    /\ fullText = <<>>
    /\ sources = <<>>
    /\ sourceUris = {}
    /\ received = <<>>
    /\ delivered = 0
    /\ turn = NoTurn
    /\ i = 0
    /\ race = "none"
    /\ summaryReq = "none"
    /\ comparisonReq = "none"
    /\ speechReqs = {}
    /\ decodes = {}
    /\ playing = {}
    /\ stopped = {}
    /\ skips = {}
    /\ nextAudioPromise = NoPromise
    /\ audioResults = {}
    /\ audioRequests = <<>>

\* ----------------------------------------------------------- start, part 1

\* onChange of the question input, rendered by renderIdle only
SetQuestion ==
    /\ phase = IDLE
    /\ Quiet
    /\ \E q \in Questions :
        /\ q # question
        /\ question' = q
    /\ UNCHANGED <<phase, messages, error, speakingMessageIndex, summary, comparison,
                   userVote, scoreData, audioContextRef, currentAudioSourceRef,
                   isSkippedRef, skipTrigger, pc, textVars, i, race,
                   analysisVars, audioVars, skips>>
    /\ UNCHANGED pipelineVars

\* A start that resets the transcript before it looks at the question
StartDebateBlankClears ==
    /\ phase = IDLE
    /\ Quiet
    /\ Trim(question) = <<>>
    /\ error' = "Please enter a question to debate."
    /\ messages' = <<>>
    /\ UNCHANGED <<phase, question, speakingMessageIndex, summary, comparison,
                   userVote, scoreData, audioContextRef, currentAudioSourceRef,
                   isSkippedRef, skipTrigger, pc, textVars, i, race,
                   analysisVars, audioVars, skips>>
    /\ UNCHANGED pipelineVars

\* handleStartDebate with a blank question: the early return
StartDebateBlank ==
    /\ phase = IDLE
    /\ Quiet
    /\ Trim(question) = <<>>
    /\ error' = "Please enter a question to debate."
    /\ UNCHANGED <<phase, question, messages, speakingMessageIndex, summary, comparison,
                   userVote, scoreData, audioContextRef, currentAudioSourceRef,
                   isSkippedRef, skipTrigger, pc, textVars, i, race,
                   analysisVars, audioVars, skips>>
    /\ UNCHANGED pipelineVars

\* handleStartDebate up to its await of getDebateSides
StartDebate ==
    /\ phase = IDLE
    /\ Quiet
    /\ Trim(question) # <<>>
    /\ error' = NULL
    /\ isSkippedRef' = FALSE
    /\ phase' = ANALYZING
    /\ messages' = <<>>
    /\ speakingMessageIndex' = NoIndex
    /\ summary' = NULL
    /\ comparison' = NULL
    /\ pc' = "sides"
    /\ UNCHANGED <<question, userVote, scoreData, audioContextRef, currentAudioSourceRef,
                   skipTrigger, textVars, i, race, analysisVars, audioVars, skips>>
    /\ UNCHANGED pipelineVars

\* The catch of handleStartDebate: whatever runDebate or getDebateSides threw
StartFailed(message) ==
    /\ error' = message
    /\ phase' = IDLE
    /\ pc' = "idle"

\* A head of the loop that takes the turns in pairs: the first debater opens twice
OpenTurnRepeated(msgs, generated) ==
    /\ turn' = debateTurns[2 * (Len(generated) \div 2) + 1]
    /\ messages' = Append(msgs, tempMessage(debateTurns[2 * (Len(generated) \div 2) + 1].persona))
    /\ fullText' = <<>>
    /\ sources' = <<>>
    /\ sourceUris' = {}
    /\ received' = <<>>
    /\ pc' = "open"

\* A head of the loop that puts the placeholder in front of the list
OpenTurnInFront(msgs, generated) ==
    /\ turn' = debateTurns[Len(generated) + 1]
    /\ messages' = <<tempMessage(debateTurns[Len(generated) + 1].persona)>> \o msgs
    /\ fullText' = <<>>
    /\ sources' = <<>>
    /\ sourceUris' = {}
    /\ received' = <<>>
    /\ pc' = "open"

\* The head of the for-of loop of PART 1 for the next turn, up to its await of
\* generateDebateTurnStream: the placeholder is appended and the stream requested.
OpenTurn(msgs, generated) ==
    /\ turn' = debateTurns[Len(generated) + 1]
    /\ messages' = Append(msgs, tempMessage(debateTurns[Len(generated) + 1].persona))
    /\ fullText' = <<>>
    /\ sources' = <<>>
    /\ sourceUris' = {}
    /\ received' = <<>>
    /\ pc' = "open"

\* getDebateSides resolves: the SYSTEM messages, then runDebate up to its first await
SidesResolved ==
    /\ pc = "sides"
    /\ \E s \in StancePairs :
        LET sys == systemMessages(question, s.sideA, s.sideB) IN
        /\ generatedMessages' = <<>>
        /\ currentHistory' = sys
        /\ delivered' = 0
        /\ OpenTurn(sys, <<>>)
    /\ UNCHANGED <<phase, question, error, speakingMessageIndex, summary, comparison,
                   userVote, scoreData, audioContextRef, currentAudioSourceRef,
                   isSkippedRef, skipTrigger, i, race, analysisVars, audioVars, skips>>
    /\ UNCHANGED pipelineVars

\* getDebateSides rejects
SidesRejected ==
    /\ pc = "sides"
    /\ StartFailed("Could not analyze the question. Please try a different one.")
    /\ UNCHANGED <<question, messages, speakingMessageIndex, summary, comparison,
                   userVote, scoreData, audioContextRef, currentAudioSourceRef,
                   isSkippedRef, skipTrigger, textVars, i, race, analysisVars,
                   audioVars, skips>>
    /\ UNCHANGED pipelineVars

\* generateDebateTurnStream resolves with the stream
StreamOpened ==
    /\ pc = "open"
    /\ pc' = "stream"
    /\ UNCHANGED <<uiVars, audioContextRef, currentAudioSourceRef, isSkippedRef,
                   skipTrigger, textVars, i, race, analysisVars, audioVars, skips>>
    /\ UNCHANGED pipelineVars

\* index of the placeholder of the turn being generated (1-based here)
placeholderIndex == 3 + Len(generatedMessages) + 1

\* A body of the for-await loop that shows the latest fragment only
StreamChunkLatest(fragments) ==
    /\ pc = "stream"
    /\ \E chunk \in fragments :
        /\ delivered + Len(received) < MaxChunks
        /\ TextLen(generatedMessages) + Len(fullText) + Len(chunk.text) <= MaxText
        /\ SourceCount(generatedMessages) + Len(sources) + Len(chunk.web) <= MaxCitations
        /\ received' = Append(received, chunk)
        /\ fullText' = chunk.text
        /\ LET pushed == pushSources(sources, sourceUris, chunk.web) IN
            /\ sources' = pushed.sources
            /\ sourceUris' = pushed.sourceUris
            /\ messages' = [messages EXCEPT ![placeholderIndex] =
                                [@ EXCEPT !.text = chunk.text,
                                          !.sources = pushed.sources]]
    /\ UNCHANGED <<phase, question, error, speakingMessageIndex, summary, comparison,
                   userVote, scoreData, audioContextRef, currentAudioSourceRef,
                   isSkippedRef, skipTrigger, pc, generatedMessages, currentHistory,
                   delivered, turn, i, race, analysisVars, audioVars, skips>>
    /\ UNCHANGED pipelineVars

\* One chunk of the stream: the body of the for-await loop
StreamChunk(fragments) ==
    /\ pc = "stream"
    /\ \E chunk \in fragments :
        /\ delivered + Len(received) < MaxChunks
        /\ TextLen(generatedMessages) + Len(fullText) + Len(chunk.text) <= MaxText
        /\ SourceCount(generatedMessages) + Len(sources) + Len(chunk.web) <= MaxCitations
        /\ received' = Append(received, chunk)
        /\ fullText' = fullText \o chunk.text
        /\ LET pushed == pushSources(sources, sourceUris, chunk.web) IN
            /\ sources' = pushed.sources
            /\ sourceUris' = pushed.sourceUris
            /\ messages' = [messages EXCEPT ![placeholderIndex] =
                                [@ EXCEPT !.text = fullText \o chunk.text,
                                          !.sources = pushed.sources]]
    /\ UNCHANGED <<phase, question, error, speakingMessageIndex, summary, comparison,
                   userVote, scoreData, audioContextRef, currentAudioSourceRef,
                   isSkippedRef, skipTrigger, pc, generatedMessages, currentHistory,
                   delivered, turn, i, race, analysisVars, audioVars, skips>>
    /\ UNCHANGED pipelineVars

\* A failure of the stream that is reported while runDebate goes on to the analysis
StreamFailedGoesOn ==
    /\ pc \in {"open", "stream"}
    /\ error' = "Failed to start debate."
    /\ summaryReq' = "pending"
    /\ comparisonReq' = "pending"
    /\ pc' = "analysis"
    /\ UNCHANGED <<phase, question, messages, speakingMessageIndex, summary, comparison,
                   userVote, scoreData, audioContextRef, currentAudioSourceRef,
                   isSkippedRef, skipTrigger, textVars, i, race, audioVars, skips>>
    /\ UNCHANGED pipelineVars

\* The stream fails, on opening or between two chunks: the exception leaves runDebate
StreamFailed ==
    /\ pc \in {"open", "stream"}
    /\ StartFailed("Failed to start debate.")
    /\ UNCHANGED <<question, messages, speakingMessageIndex, summary, comparison,
                   userVote, scoreData, audioContextRef, currentAudioSourceRef,
                   isSkippedRef, skipTrigger, textVars, i, race, analysisVars,
                   audioVars, skips>>
    /\ UNCHANGED pipelineVars

\* An end of the stream that records the message as the transcript shows it
StreamEndedAsShown ==
    /\ pc = "stream"
    /\ LET final == finalMessage(turn.persona, fullText, sources)
           generated == Append(generatedMessages, final)
           msgs == [messages EXCEPT ![placeholderIndex] = final]
       IN
        /\ generatedMessages' = generated
        /\ currentHistory' = Append(currentHistory, messages[placeholderIndex])
        /\ IF Len(generated) < Len(debateTurns)
           THEN /\ OpenTurn(msgs, generated)
                /\ delivered' = delivered + Len(received)
                /\ UNCHANGED analysisVars
           ELSE /\ messages' = msgs
                /\ fullText' = fullText
                /\ sources' = sources
                /\ sourceUris' = sourceUris
                /\ received' = <<>>
                /\ delivered' = 0
                /\ turn' = turn
                /\ summaryReq' = "pending"
                /\ comparisonReq' = "pending"
                /\ pc' = "analysis"
    /\ UNCHANGED <<phase, question, error, speakingMessageIndex, summary, comparison,
                   userVote, scoreData, audioContextRef, currentAudioSourceRef,
                   isSkippedRef, skipTrigger, i, race, audioVars, skips>>
    /\ UNCHANGED pipelineVars

\* An end of the stream that goes on to the analysis one turn early
StreamEndedEarly ==
    /\ pc = "stream"
    /\ LET final == finalMessage(turn.persona, fullText, sources)
           generated == Append(generatedMessages, final)
           msgs == [messages EXCEPT ![placeholderIndex] = final]
       IN
        /\ generatedMessages' = generated
        /\ currentHistory' = Append(currentHistory, final)
        /\ IF Len(generated) < Len(debateTurns) - 1
           THEN /\ OpenTurn(msgs, generated)
                /\ delivered' = delivered + Len(received)
                /\ UNCHANGED analysisVars
           ELSE /\ messages' = msgs
                /\ fullText' = fullText
                /\ sources' = sources
                /\ sourceUris' = sourceUris
                /\ received' = <<>>
                /\ delivered' = 0
                /\ turn' = turn
                /\ summaryReq' = "pending"
                /\ comparisonReq' = "pending"
                /\ pc' = "analysis"
    /\ UNCHANGED <<phase, question, error, speakingMessageIndex, summary, comparison,
                   userVote, scoreData, audioContextRef, currentAudioSourceRef,
                   isSkippedRef, skipTrigger, i, race, audioVars, skips>>
    /\ UNCHANGED pipelineVars

\* The stream ends: the turn's message is finalized; then the next turn is opened or,
\* after the last turn, PART 2 issues both analysis requests and awaits Promise.all.
StreamEnded ==
    /\ pc = "stream"
    /\ LET final == finalMessage(turn.persona, fullText, sources)
           generated == Append(generatedMessages, final)
           msgs == [messages EXCEPT ![placeholderIndex] = final]
       IN
        /\ generatedMessages' = generated
        /\ currentHistory' = Append(currentHistory, final)
        /\ IF Len(generated) < Len(debateTurns)
           THEN /\ OpenTurn(msgs, generated)
                /\ delivered' = delivered + Len(received)
                /\ UNCHANGED analysisVars
           ELSE /\ messages' = msgs
                /\ fullText' = fullText
                /\ sources' = sources
                /\ sourceUris' = sourceUris
                /\ received' = <<>>
                /\ delivered' = 0
                /\ turn' = turn
                /\ summaryReq' = "pending"
                /\ comparisonReq' = "pending"
                /\ pc' = "analysis"
    /\ UNCHANGED <<phase, question, error, speakingMessageIndex, summary, comparison,
                   userVote, scoreData, audioContextRef, currentAudioSourceRef,
                   isSkippedRef, skipTrigger, i, race, audioVars, skips>>
    /\ UNCHANGED pipelineVars

\* ------------------------------------------------------- part 2: analysis

\* A tail of the playback loop that leaves the phase as it is
PostLoopStays(ph) ==
    /\ skipTrigger' = NoHandoff
    /\ speakingMessageIndex' = IF ~isSkippedRef THEN NoIndex ELSE speakingMessageIndex
    /\ phase' = ph
    /\ pc' = "idle"
    /\ race' = "none"
    /\ i' = i
    /\ speechReqs' = Aged(speechReqs)
    /\ decodes' = Aged(decodes)
    /\ playing' = AgedSources(playing)
    /\ stopped' = AgedSources(stopped)
    /\ currentAudioSourceRef' =
          IF currentAudioSourceRef = NoSource THEN NoSource ELSE OldRef
    /\ skips' = {}

\* The tail of the playback loop: skipTrigger is cleared and, unless skip-to-voting
\* was clicked, the phase becomes VOTING.  ph is the phase set so far in this task.
\* What is still in flight is no longer awaited by any loop and loses its turn.
PostLoop(ph) ==
    /\ skipTrigger' = NoHandoff
    /\ speakingMessageIndex' = IF ~isSkippedRef THEN NoIndex ELSE speakingMessageIndex
    /\ phase' = IF ~isSkippedRef THEN VOTING ELSE ph
    /\ pc' = "idle"
    /\ race' = "none"
    /\ i' = i
    /\ speechReqs' = Aged(speechReqs)
    /\ decodes' = Aged(decodes)
    /\ playing' = AgedSources(playing)
    /\ stopped' = AgedSources(stopped)
    /\ currentAudioSourceRef' =
          IF currentAudioSourceRef = NoSource THEN NoSource ELSE OldRef
    /\ skips' = {}

\* A head of the loop without the test of isSkippedRef
LoopHeadUnflagged(k, ph) ==
    IF k < Len(generatedMessages)
    THEN /\ skipTrigger' = k
         /\ race' = "pending"
         /\ i' = k
         /\ speakingMessageIndex' = 3 + k
         /\ speechReqs' = speechReqs \cup {k}
         /\ phase' = ph
         /\ pc' = "audio"
         /\ UNCHANGED <<decodes, playing, stopped, currentAudioSourceRef, skips>>
    ELSE PostLoop(ph)

\* A head of the loop that creates interruptPromise once, before the first turn
LoopHeadOneHandoff(k, ph) ==
    IF k < Len(generatedMessages) /\ ~isSkippedRef
    THEN /\ skipTrigger' = IF skipTrigger = NoHandoff THEN k ELSE skipTrigger
         /\ race' = "pending"
         /\ i' = k
         /\ speakingMessageIndex' = 3 + k
         /\ speechReqs' = speechReqs \cup {k}
         /\ phase' = ph
         /\ pc' = "audio"
         /\ UNCHANGED <<decodes, playing, stopped, currentAudioSourceRef, skips>>
    ELSE PostLoop(ph)

\* Iteration k of the playback loop up to its first await: the loop test, the
\* isSkippedRef test, a new interruptPromise whose resolver is stored in
\* skipTrigger, the audio request, Promise.race.
LoopHead(k, ph) ==
    IF k < Len(generatedMessages) /\ ~isSkippedRef
    THEN /\ skipTrigger' = k
         /\ race' = "pending"
         /\ i' = k
         /\ speakingMessageIndex' = 3 + k
         /\ speechReqs' = speechReqs \cup {k}
         /\ phase' = ph
         /\ pc' = "audio"
         /\ UNCHANGED <<decodes, playing, stopped, currentAudioSourceRef, skips>>
    ELSE PostLoop(ph)

\* PART 3 up to the first await of the loop, with an AudioContext at hand
EnterPlayback ==
    /\ audioContextRef' = TRUE
    /\ LoopHead(0, DEBATING)
    /\ error' = error

\* err.message of what new AudioContext throws where there is no Web Audio API
AudioContextError == "AudioContext is not a constructor"

\* PART 3 when initializeAudio throws: new AudioContext failed, the exception
\* leaves runDebate and is caught by handleStartDebate
AudioContextFailed ==
    /\ ~audioContextRef
    /\ audioContextRef' = FALSE
    /\ StartFailed(AudioContextError)
    /\ UNCHANGED <<speakingMessageIndex, skipTrigger, i, race, currentAudioSourceRef,
                   audioVars, skips>>

\* After the try/catch around Promise.all
AfterAnalysis == EnterPlayback \/ AudioContextFailed

\* Promise.all is still unsettled
AllPending == pc = "analysis"

\* generateDebateSummary resolves
SummaryResolved ==
    /\ summaryReq = "pending"
    /\ Quiet
    /\ summaryReq' = "resolved"
    /\ IF AllPending /\ comparisonReq = "resolved"
       THEN /\ summary' = "summary"
            /\ comparison' = "comparison"
            /\ AfterAnalysis
       ELSE UNCHANGED <<summary, comparison, audioContextRef, error, phase, pc,
                        speakingMessageIndex, skipTrigger, i, race,
                        currentAudioSourceRef, audioVars, skips>>
    /\ UNCHANGED <<question, messages, userVote, scoreData, isSkippedRef, textVars,
                   comparisonReq>>
    /\ UNCHANGED pipelineVars

\* generateArgumentComparison resolves
ComparisonResolved ==
    /\ comparisonReq = "pending"
    /\ Quiet
    /\ comparisonReq' = "resolved"
    /\ IF AllPending /\ summaryReq = "resolved"
       THEN /\ summary' = "summary"
            /\ comparison' = "comparison"
            /\ AfterAnalysis
       ELSE UNCHANGED <<summary, comparison, audioContextRef, error, phase, pc,
                        speakingMessageIndex, skipTrigger, i, race,
                        currentAudioSourceRef, audioVars, skips>>
    /\ UNCHANGED <<question, messages, userVote, scoreData, isSkippedRef, textVars,
                   summaryReq>>
    /\ UNCHANGED pipelineVars

\* A rejected summary that is not caught inside runDebate
SummaryRejectedFatal ==
    /\ summaryReq = "pending"
    /\ Quiet
    /\ summaryReq' = "rejected"
    /\ IF AllPending
       THEN /\ StartFailed("Failed to start debate.")
            /\ UNCHANGED <<audioContextRef, speakingMessageIndex, skipTrigger, i, race,
                           currentAudioSourceRef, audioVars, skips>>
       ELSE UNCHANGED <<audioContextRef, error, phase, pc, speakingMessageIndex,
                        skipTrigger, i, race, currentAudioSourceRef, audioVars, skips>>
    /\ UNCHANGED <<question, messages, summary, comparison, userVote, scoreData,
                   isSkippedRef, textVars, comparisonReq>>
    /\ UNCHANGED pipelineVars

\* generateDebateSummary rejects: Promise.all rejects at once, the catch logs
SummaryRejected ==
    /\ summaryReq = "pending"
    /\ Quiet
    /\ summaryReq' = "rejected"
    /\ IF AllPending
       THEN AfterAnalysis
       ELSE UNCHANGED <<audioContextRef, error, phase, pc, speakingMessageIndex,
                        skipTrigger, i, race, currentAudioSourceRef, audioVars, skips>>
    /\ UNCHANGED <<question, messages, summary, comparison, userVote, scoreData,
                   isSkippedRef, textVars, comparisonReq>>
    /\ UNCHANGED pipelineVars

\* generateArgumentComparison rejects: Promise.all rejects at once, the catch logs
ComparisonRejected ==
    /\ comparisonReq = "pending"
    /\ Quiet
    /\ comparisonReq' = "rejected"
    /\ IF AllPending
       THEN AfterAnalysis
       ELSE UNCHANGED <<audioContextRef, error, phase, pc, speakingMessageIndex,
                        skipTrigger, i, race, currentAudioSourceRef, audioVars, skips>>
    /\ UNCHANGED <<question, messages, summary, comparison, userVote, scoreData,
                   isSkippedRef, textVars, summaryReq>>
    /\ UNCHANGED pipelineVars

\* ------------------------------------------------------- part 3: playback

\* The loop awaits Promise.race([audioGenerationPromise, interruptPromise]) of turn i
AwaitsSpeech(id) == pc = "audio" /\ race = "pending" /\ id = CurId

\* The loop awaits Promise.race([playbackPromise, interruptPromise]) of turn i
AwaitsPlayback(id) == pc = "play" /\ race = "pending" /\ id = CurId

\* What the two skip handlers read and write, and what they must leave alone
Handled ==
    [phase |-> phase, error |-> error, speakingMessageIndex |-> speakingMessageIndex,
     isSkippedRef |-> isSkippedRef, currentAudioSourceRef |-> currentAudioSourceRef,
     skipTrigger |-> skipTrigger, pc |-> pc, i |-> i, race |-> race,
     playing |-> playing, stopped |-> stopped]

\* if (currentAudioSourceRef.current) currentAudioSourceRef.current.stop(): a source
\* that sounds is stopped, one that was stopped already or has ended is not changed
StopCurrent(s) ==
    IF s.currentAudioSourceRef # NoSource /\ s.currentAudioSourceRef \in s.playing
    THEN [s EXCEPT !.playing = @ \ {s.currentAudioSourceRef},
                   !.stopped = @ \cup {s.currentAudioSourceRef}]
    ELSE s

\* A resolver that settles nothing
TriggerLost(s, type) == s

\* The interruptPromise that both races of the iteration the loop is at are run
\* against: the one that iteration created
interruptPromise(s) == s.i

\* skipTrigger.current?.(type): resolves the promise whose resolver is stored, which
\* settles the race the loop awaits when that race is run against this promise and
\* is not settled already
Trigger(s, type) ==
    [s EXCEPT !.race = IF /\ s.skipTrigger # NoHandoff
                          /\ s.skipTrigger = interruptPromise(s)
                          /\ s.race = "pending"
                       THEN type ELSE @]

\* handleSkip
handleSkip(s) == Trigger(StopCurrent(s), "turn")

\* handleSkipToVoting without its early return
skipToVotingUnguarded(s) ==
    [Trigger(StopCurrent([s EXCEPT !.isSkippedRef = TRUE]), "voting")
       EXCEPT !.speakingMessageIndex = NoIndex, !.phase = VOTING]

\* A skip-to-voting that leaves the speaking message as it is
skipToVotingKeepsIndex(s) ==
    IF s.isSkippedRef THEN s
    ELSE [Trigger(StopCurrent([s EXCEPT !.isSkippedRef = TRUE]), "voting")
            EXCEPT !.phase = VOTING]

\* handleSkipToVoting
handleSkipToVoting(s) ==
    IF s.isSkippedRef THEN s
    ELSE [Trigger(StopCurrent([s EXCEPT !.isSkippedRef = TRUE]), "voting")
            EXCEPT !.speakingMessageIndex = NoIndex, !.phase = VOTING]

\* The state a skip handler leaves
Becomes(s) ==
    /\ phase' = s.phase
    /\ speakingMessageIndex' = s.speakingMessageIndex
    /\ isSkippedRef' = s.isSkippedRef
    /\ race' = s.race
    /\ playing' = s.playing
    /\ stopped' = s.stopped

\* generateSpeech resolves (with a non-empty payload, part_001 lines 441-445)
SpeechResolved ==
    /\ Quiet
    /\ \E id \in speechReqs :
        /\ speechReqs' = speechReqs \ {id}
        /\ race' = IF AwaitsSpeech(id) THEN "audio" ELSE race
    /\ UNCHANGED <<uiVars, audioContextRef, currentAudioSourceRef, isSkippedRef,
                   skipTrigger, pc, textVars, i, analysisVars, decodes, playing,
                   stopped, skips>>
    /\ UNCHANGED pipelineVars

\* A rejection that reaches the race the loop awaits whichever request it is from
SpeechRejectedAny ==
    /\ Quiet
    /\ \E id \in speechReqs :
        /\ speechReqs' = speechReqs \ {id}
        /\ race' = IF pc = "audio" /\ race = "pending" THEN "rejected" ELSE race
    /\ UNCHANGED <<uiVars, audioContextRef, currentAudioSourceRef, isSkippedRef,
                   skipTrigger, pc, textVars, i, analysisVars, decodes, playing,
                   stopped, skips>>
    /\ UNCHANGED pipelineVars

\* generateSpeech rejects
SpeechRejected ==
    /\ Quiet
    /\ \E id \in speechReqs :
        /\ speechReqs' = speechReqs \ {id}
        /\ race' = IF AwaitsSpeech(id) THEN "rejected" ELSE race
    /\ UNCHANGED <<uiVars, audioContextRef, currentAudioSourceRef, isSkippedRef,
                   skipTrigger, pc, textVars, i, analysisVars, decodes, playing,
                   stopped, skips>>
    /\ UNCHANGED pipelineVars

\* The loop resumes with the audio payload and calls playAudio, whose executor runs
\* up to its await of decodeAudioData; the loop then awaits the second race against
\* the same interruptPromise.  With no AudioContext or with isSkippedRef set the
\* executor resolves at once and the loop goes on to the next turn.
ResumeWithAudio ==
    /\ pc = "audio"
    /\ race = "audio"
    /\ IF ~audioContextRef \/ isSkippedRef
       THEN LoopHead(i + 1, phase)
       ELSE /\ decodes' = decodes \cup {CurId}
            /\ pc' = "play"
            /\ race' = "pending"
            /\ UNCHANGED <<phase, speakingMessageIndex, skipTrigger, i, speechReqs,
                           currentAudioSourceRef, playing, stopped, skips>>
    /\ UNCHANGED <<question, messages, error, summary, comparison, userVote, scoreData,
                   audioContextRef, isSkippedRef, textVars, analysisVars>>
    /\ UNCHANGED pipelineVars

\* playAudio without its second test of isSkippedRef: the buffer is started whatever
\* was clicked during the decode
DecodeResolvedUnchecked ==
    /\ Quiet
    /\ \E id \in decodes :
        /\ decodes' = decodes \ {id}
        /\ LET source == IF id = Old THEN OldRef ELSE id IN
           /\ currentAudioSourceRef' = source
           /\ playing' = Unref(playing) \cup {source}
           /\ stopped' = Unref(stopped)
           /\ race' = race
    /\ UNCHANGED <<uiVars, audioContextRef, isSkippedRef, skipTrigger, pc, textVars,
                   i, analysisVars, speechReqs, skips>>
    /\ UNCHANGED pipelineVars

\* decodeAudioData resolves inside playAudio: with isSkippedRef set the promise is
\* resolved and nothing is played; otherwise a source is created, stored in
\* currentAudioSourceRef and started.
DecodeResolved ==
    /\ Quiet
    /\ \E id \in decodes :
        /\ decodes' = decodes \ {id}
        /\ IF isSkippedRef
           THEN /\ race' = IF AwaitsPlayback(id) THEN "played" ELSE race
                /\ UNCHANGED <<currentAudioSourceRef, playing, stopped>>
           ELSE LET source == IF id = Old THEN OldRef ELSE id IN
                /\ currentAudioSourceRef' = source
                /\ playing' = Unref(playing) \cup {source}
                /\ stopped' = Unref(stopped)
                /\ race' = race
    /\ UNCHANGED <<uiVars, audioContextRef, isSkippedRef, skipTrigger, pc, textVars,
                   i, analysisVars, speechReqs, skips>>
    /\ UNCHANGED pipelineVars

\* decode or decodeAudioData throws inside playAudio: reject(err)
DecodeRejected ==
    /\ Quiet
    /\ \E id \in decodes :
        /\ decodes' = decodes \ {id}
        /\ race' = IF AwaitsPlayback(id) THEN "rejected" ELSE race
    /\ UNCHANGED <<uiVars, audioContextRef, currentAudioSourceRef, isSkippedRef,
                   skipTrigger, pc, textVars, i, analysisVars, speechReqs, playing,
                   stopped, skips>>
    /\ UNCHANGED pipelineVars

\* An onended that clears currentAudioSourceRef without comparing it to its source
SourceEndedClears ==
    /\ Quiet
    /\ \E id \in playing \cup stopped :
        /\ \/ id \in playing /\ playing' = playing \ {id} /\ stopped' = stopped
           \/ id \in stopped /\ stopped' = stopped \ {id} /\ playing' = playing
        /\ currentAudioSourceRef' = NoSource
        /\ race' = IF AwaitsPlayback(id) THEN "played" ELSE race
    /\ UNCHANGED <<uiVars, audioContextRef, isSkippedRef, skipTrigger, pc, textVars,
                   i, analysisVars, speechReqs, decodes, skips>>
    /\ UNCHANGED pipelineVars

\* An onended that resolves the playback the loop awaits whichever source ended
SourceEndedAny ==
    /\ Quiet
    /\ \E id \in playing \cup stopped :
        /\ \/ id \in playing /\ playing' = playing \ {id} /\ stopped' = stopped
           \/ id \in stopped /\ stopped' = stopped \ {id} /\ playing' = playing
        /\ currentAudioSourceRef' =
              IF currentAudioSourceRef = id THEN NoSource ELSE currentAudioSourceRef
        /\ race' = IF pc = "play" /\ race = "pending" THEN "played" ELSE race
    /\ UNCHANGED <<uiVars, audioContextRef, isSkippedRef, skipTrigger, pc, textVars,
                   i, analysisVars, speechReqs, decodes, skips>>
    /\ UNCHANGED pipelineVars

\* source.onended, after the buffer played to its end or after stop()
SourceEnded ==
    /\ Quiet
    /\ \E id \in playing \cup stopped :
        /\ \/ id \in playing /\ playing' = playing \ {id} /\ stopped' = stopped
           \/ id \in stopped /\ stopped' = stopped \ {id} /\ playing' = playing
        /\ currentAudioSourceRef' =
              IF currentAudioSourceRef = id THEN NoSource ELSE currentAudioSourceRef
        /\ race' = IF AwaitsPlayback(id) THEN "played" ELSE race
    /\ UNCHANGED <<uiVars, audioContextRef, isSkippedRef, skipTrigger, pc, textVars,
                   i, analysisVars, speechReqs, decodes, skips>>
    /\ UNCHANGED pipelineVars

\* The loop resumes after playbackPromise resolved: next turn
ResumePlayed ==
    /\ race = "played"
    /\ LoopHead(i + 1, phase)
    /\ UNCHANGED <<question, messages, error, summary, comparison, userVote, scoreData,
                   audioContextRef, isSkippedRef, textVars, analysisVars>>
    /\ UNCHANGED pipelineVars

\* A catch block that gives the debate up as the catch of handleStartDebate does
ResumeRejectedAborts ==
    /\ race = "rejected"
    /\ error' = IF pc = "audio" THEN "Failed to generate audio for a turn."
                ELSE "Failed to play audio for a turn."
    /\ PostLoopStays(IDLE)
    /\ UNCHANGED <<question, messages, summary, comparison, userVote, scoreData,
                   audioContextRef, isSkippedRef, textVars, analysisVars>>
    /\ UNCHANGED pipelineVars

\* The loop resumes in one of its two catch blocks: error unless skipped, break
ResumeRejected ==
    /\ race = "rejected"
    /\ error' = IF isSkippedRef THEN error
                ELSE IF pc = "audio" THEN "Failed to generate audio for a turn."
                ELSE "Failed to play audio for a turn."
    /\ PostLoop(phase)
    /\ UNCHANGED <<question, messages, summary, comparison, userVote, scoreData,
                   audioContextRef, isSkippedRef, textVars, analysisVars>>
    /\ UNCHANGED pipelineVars

\* handleSkip, the button of the message that is being spoken
HandleSkip ==
    /\ phase = DEBATING
    /\ speakingMessageIndex # NoIndex
    /\ Quiet
    /\ Cardinality(skips) < MaxSkips
    /\ Becomes(handleSkip(Handled))
    /\ skips' = skips \cup {[turn |-> i, at |-> pc]}
    /\ UNCHANGED <<question, messages, error, summary, comparison, userVote, scoreData,
                   audioContextRef, currentAudioSourceRef, skipTrigger, pc, textVars,
                   i, analysisVars, speechReqs, decodes>>
    /\ UNCHANGED pipelineVars

\* The loop resuming with 'turn' at the same turn again
ResumeTurnAgain ==
    /\ race = "turn"
    /\ LoopHead(i, phase)
    /\ UNCHANGED <<question, messages, error, summary, comparison, userVote, scoreData,
                   audioContextRef, isSkippedRef, textVars, analysisVars>>
    /\ UNCHANGED pipelineVars

\* The loop resumes with 'turn': continue
ResumeTurn ==
    /\ race = "turn"
    /\ LoopHead(i + 1, phase)
    /\ UNCHANGED <<question, messages, error, summary, comparison, userVote, scoreData,
                   audioContextRef, isSkippedRef, textVars, analysisVars>>
    /\ UNCHANGED pipelineVars

\* handleSkipToVoting, the button shown while the phase is DEBATING
HandleSkipToVoting ==
    /\ phase = DEBATING
    /\ Quiet
    /\ Becomes(handleSkipToVoting(Handled))
    /\ UNCHANGED <<question, messages, error, summary, comparison, userVote, scoreData,
                   audioContextRef, currentAudioSourceRef, skipTrigger, pc, textVars,
                   i, analysisVars, speechReqs, decodes, skips>>
    /\ UNCHANGED pipelineVars

\* The loop resumes with 'voting': break
ResumeVoting ==
    /\ race = "voting"
    /\ PostLoop(phase)
    /\ UNCHANGED <<question, messages, error, summary, comparison, userVote, scoreData,
                   audioContextRef, isSkippedRef, textVars, analysisVars>>
    /\ UNCHANGED pipelineVars

\* ------------------------------------------------------------ the verdict

Upper == << "A","B","C","D","E","F","G","H","I","J","K","L","M",
            "N","O","P","Q","R","S","T","U","V","W","X","Y","Z" >>
Lower == << "a","b","c","d","e","f","g","h","i","j","k","l","m",
            "n","o","p","q","r","s","t","u","v","w","x","y","z" >>
Digits == { "0","1","2","3","4","5","6","7","8","9" }

Range(f) == { f[x] : x \in DOMAIN f }

UpperSet == Range(Upper)
WordSet == Range(Upper) \cup Range(Lower) \cup Digits \cup {"_"}

\* one character of String.prototype.toLowerCase
LowerChar(c) ==
    IF c \in UpperSet THEN Lower[CHOOSE k \in DOMAIN Upper : Upper[k] = c] ELSE c

toLowerCase(s) == [k \in DOMAIN s |-> LowerChar(s[k])]

\* \w and \s of the regular expression /[^\w\s]/gi
IsWord(c) == c \in WordSet
IsWordOrSpace(c) == IsWord(c) \/ IsSpace(c)

\* s.replace(/[^\w\s]/gi, '')
RECURSIVE StripPunctuation(_)
StripPunctuation(s) ==
    IF s = <<>> THEN <<>>
    ELSE IF IsWordOrSpace(Head(s)) THEN <<Head(s)>> \o StripPunctuation(Tail(s))
    ELSE StripPunctuation(Tail(s))

\* Object.keys(scoreWeights), in insertion order, and the weights in hundredths
WeightKeys ==
    << <<"P","o","s","i","t","i","o","n","i","n","g">>,
       <<"A","r","g","u","m","e","n","t">>,
       <<"E","v","i","d","e","n","c","e">>,
       <<"R","e","f","u","t","a","t","i","o","n">>,
       <<"C","o","v","e","r","a","g","e">>,
       <<"E","t","h","i","c","s">>,
       <<"C","l","a","r","i","t","y">>,
       <<"T","o","n","e">> >>
\* weights that do not add up to one
WeightValuesHeavyTone == << 10, 20, 20, 15, 10, 10, 10, 10 >>
WeightValues == << 10, 20, 20, 15, 10, 10, 10, 5 >>

\* key.toLowerCase() of every key
LowerKeys == [k \in DOMAIN WeightKeys |-> toLowerCase(WeightKeys[k])]

\* Object.keys(scoreWeights).find(...): the index of the first key that equals the
\* normalised criterion, 0 when there is none
weightKey(criteria) ==
    LET norm == StripPunctuation(toLowerCase(criteria))
        hits == { k \in DOMAIN WeightKeys : LowerKeys[k] = norm }
    IN IF hits = {} THEN 0 ELSE CHOOSE k \in hits : \A m \in hits : k <= m

\* scoreWeights[criteria] ? scoreWeights[criteria] * 100 : 0 of the results table:
\* the value under the key that is the criterion string itself, in percent
shownWeight(criteria) ==
    LET hits == { k \in DOMAIN WeightKeys : WeightKeys[k] = criteria }
    IN IF hits = {} THEN 0
       ELSE LET k == CHOOSE k \in hits : TRUE
            IN IF WeightValues[k] # 0 THEN WeightValues[k] ELSE 0

\* Raw scores and final scores are in hundredths of a point, weights in hundredths:
\* a product and the running total are in ten-thousandths of a point.

\* An item that counts with the smallest weight when its criterion matches no key
ContributionAtLeast(scoreItem) ==
    LET k == weightKey(scoreItem.criteria)
    IN IF k # 0 /\ WeightValues[k] # 0 THEN scoreItem.score * WeightValues[k]
       ELSE scoreItem.score * 5

\* what one score item adds to total
Contribution(scoreItem) ==
    LET k == weightKey(scoreItem.criteria)
    IN IF k # 0 /\ WeightValues[k] # 0 THEN scoreItem.score * WeightValues[k] ELSE 0

\* total after scores.forEach
RECURSIVE Total(_)
Total(scores) ==
    IF scores = <<>> THEN 0
    ELSE Contribution(Head(scores)) + Total(Tail(scores))

\* parseFloat(total.toFixed(2)): the values it may yield.  total is a binary
\* floating-point number, so a total whose decimal value lies halfway between two
\* hundredths is stored slightly above or below it and is rounded accordingly.
toFixed2(total) ==
    IF total % 100 = 50 THEN { total \div 100, total \div 100 + 1 }
    ELSE { (total + 50) \div 100 }

\* calculateFinalScore: the values it may return
calculateFinalScore(scores) == toFixed2(Total(scores))

\* the rubric filled in with one raw score for every criterion
Uniform(score) ==
    [k \in DOMAIN WeightKeys |-> [criteria |-> WeightKeys[k], score |-> score]]

\* What the judge may answer
RawScores ==
    { [logos |-> Uniform(500), pathos |-> Uniform(500)],
      [logos |-> Uniform(400), pathos |-> Uniform(300)],
      [logos |-> Uniform(0), pathos |-> Uniform(200)] }

\* The rubric with the criterion at place k named otherwise
Renamed(scores, k, criteria) == [scores EXCEPT ![k].criteria = criteria]

\* The rubric with another raw score at place k
Rescored(scores, k, score) == [scores EXCEPT ![k].score = score]

\* The rubric with its items in the opposite order
Reversed(scores) == [k \in DOMAIN scores |-> scores[Len(scores) + 1 - k]]

\* Eight items that all name the criterion at place k of the rubric
Repeated(k, score) ==
    [n \in DOMAIN WeightKeys |-> [criteria |-> WeightKeys[k], score |-> score]]

\* The lists of score items the judge may give for one side: the rubric with every
\* whole score, in another order, with a criterion in capitals and with
\* punctuation, with an underscore, with an item outside the rubric, with a
\* criterion that is not in the rubric, with fractional scores, and with one
\* criterion named by all eight items (the response schema fixes neither the names
\* nor their number).
Sheets ==
    { Uniform(100 * score) : score \in 0..5 } \cup
    { Reversed(Uniform(300)),
      Renamed(Uniform(400), 1, <<"P","O","S","I","T","I","O","N","I","N","G","!","!">>),
      Renamed(Uniform(400), 1, <<"P","o","s","i","t","i","o","n","i","n","g","_">>),
      Append(Uniform(400), [criteria |-> <<"B","o","n","u","s">>, score |-> 500]),
      Renamed(Uniform(200), 2, <<"L","o","g","i","c">>),
      Rescored(Uniform(400), 8, 401),
      Rescored(Uniform(400), 8, 410),
      Repeated(2, 500),
      Repeated(8, 500) }

\* What the judge may answer, any list for either side
JudgeAnswers == { [logos |-> l, pathos |-> p] : l \in Sheets, p \in Sheets }

\* A verdict of handleVote that compares the totals before they are rounded
VerdictUnrounded(rawScores, logosFinal, pathosFinal) ==
    LET winner == IF Total(rawScores.logos) > Total(rawScores.pathos) THEN Logos
                  ELSE IF Total(rawScores.pathos) > Total(rawScores.logos) THEN Pathos
                  ELSE "TIE"
    IN [Logos |-> rawScores.logos,
        Pathos |-> rawScores.pathos,
        finalScores |-> [Logos |-> logosFinal, Pathos |-> pathosFinal],
        winner |-> winner]

\* What handleVote stores for an answer of the judge, given what calculateFinalScore
\* returned for each side: the final scores and the winner
Verdict(rawScores, logosFinal, pathosFinal) ==
    LET winner == IF logosFinal > pathosFinal THEN Logos
                  ELSE IF pathosFinal > logosFinal THEN Pathos
                  ELSE "TIE"
    IN [Logos |-> rawScores.logos,
        Pathos |-> rawScores.pathos,
        finalScores |-> [Logos |-> logosFinal, Pathos |-> pathosFinal],
        winner |-> winner]

\* Vote buttons that are enabled whether or not the analysis is there
HandleVoteAlwaysEnabled ==
    /\ phase = VOTING
    /\ Quiet
    /\ \E persona \in {Logos, Pathos} : userVote' = persona
    /\ phase' = SCORING
    /\ pc' = "score"
    /\ UNCHANGED <<question, messages, error, speakingMessageIndex, summary, comparison,
                   scoreData, audioContextRef, currentAudioSourceRef, isSkippedRef,
                   skipTrigger, textVars, i, race, analysisVars, audioVars, skips>>
    /\ UNCHANGED pipelineVars

\* A vote that clears the skip flag
HandleVoteClearsFlag ==
    /\ phase = VOTING
    /\ summary # NULL
    /\ comparison # NULL
    /\ Quiet
    /\ \E persona \in {Logos, Pathos} : userVote' = persona
    /\ phase' = SCORING
    /\ pc' = "score"
    /\ isSkippedRef' = FALSE
    /\ UNCHANGED <<question, messages, error, speakingMessageIndex, summary, comparison,
                   scoreData, audioContextRef, currentAudioSourceRef,
                   skipTrigger, textVars, i, race, analysisVars, audioVars, skips>>
    /\ UNCHANGED pipelineVars

\* handleVote up to its await of generateDebateScore; the buttons are disabled
\* until summary and comparison are there
HandleVote ==
    /\ phase = VOTING
    /\ summary # NULL
    /\ comparison # NULL
    /\ Quiet
    /\ \E persona \in {Logos, Pathos} : userVote' = persona
    /\ phase' = SCORING
    /\ pc' = "score"
    /\ UNCHANGED <<question, messages, error, speakingMessageIndex, summary, comparison,
                   scoreData, audioContextRef, currentAudioSourceRef, isSkippedRef,
                   skipTrigger, textVars, i, race, analysisVars, audioVars, skips>>
    /\ UNCHANGED pipelineVars

\* generateDebateScore resolves: the final scores, the winner, FINISHED
ScoreResolved(answers) ==
    /\ pc = "score"
    /\ Quiet
    /\ \E rawScores \in answers :
        \E logosFinal \in calculateFinalScore(rawScores.logos) :
            \E pathosFinal \in calculateFinalScore(rawScores.pathos) :
                scoreData' = Verdict(rawScores, logosFinal, pathosFinal)
    /\ phase' = FINISHED
    /\ pc' = "idle"
    /\ UNCHANGED <<question, messages, error, speakingMessageIndex, summary, comparison,
                   userVote, audioContextRef, currentAudioSourceRef, isSkippedRef,
                   skipTrigger, textVars, i, race, analysisVars, audioVars, skips>>
    /\ UNCHANGED pipelineVars

\* A failed scoring that drops the vote
ScoreRejectedForgetsVote ==
    /\ pc = "score"
    /\ Quiet
    /\ error' = "The AI Judge failed to score the debate. Please try again."
    /\ phase' = VOTING
    /\ userVote' = NULL
    /\ pc' = "idle"
    /\ UNCHANGED <<question, messages, speakingMessageIndex, summary, comparison,
                   scoreData, audioContextRef, currentAudioSourceRef,
                   isSkippedRef, skipTrigger, textVars, i, race, analysisVars, audioVars,
                   skips>>
    /\ UNCHANGED pipelineVars

\* generateDebateScore rejects: back to VOTING with an error
ScoreRejected ==
    /\ pc = "score"
    /\ Quiet
    /\ error' = "The AI Judge failed to score the debate. Please try again."
    /\ phase' = VOTING
    /\ pc' = "idle"
    /\ UNCHANGED <<question, messages, speakingMessageIndex, summary, comparison,
                   userVote, scoreData, audioContextRef, currentAudioSourceRef,
                   isSkippedRef, skipTrigger, textVars, i, race, analysisVars, audioVars,
                   skips>>
    /\ UNCHANGED pipelineVars

\* handleReset, the button of the results screen
HandleReset ==
    /\ phase = FINISHED
    /\ Quiet
    /\ isSkippedRef' = FALSE
    /\ playing' = Unref(playing \ {currentAudioSourceRef})
    /\ stopped' = Unref(stopped \cup (playing \cap {currentAudioSourceRef}))
    /\ currentAudioSourceRef' = NoSource
    /\ phase' = IDLE
    /\ question' = <<>>
    /\ messages' = <<>>
    /\ error' = NULL
    /\ userVote' = NULL
    /\ scoreData' = NoScoreData
    /\ speakingMessageIndex' = NoIndex
    /\ summary' = NULL
    /\ comparison' = NULL
    /\ UNCHANGED <<audioContextRef, skipTrigger, pc, textVars, i, race, analysisVars,
                   speechReqs, decodes, skips>>
    /\ UNCHANGED pipelineVars

Next ==
    \/ SetQuestion
    \/ StartDebateBlank
    \/ StartDebate
    \/ SidesResolved
    \/ SidesRejected
    \/ StreamOpened
    \/ StreamChunk(Silent)
    \/ StreamFailed
    \/ StreamEnded
    \/ SummaryResolved
    \/ ComparisonResolved
    \/ SummaryRejected
    \/ ComparisonRejected
    \/ SpeechResolved
    \/ SpeechRejected
    \/ ResumeWithAudio
    \/ DecodeResolved
    \/ DecodeRejected
    \/ SourceEnded
    \/ ResumePlayed
    \/ ResumeRejected
    \/ HandleSkip
    \/ ResumeTurn
    \/ HandleSkipToVoting
    \/ ResumeVoting
    \/ HandleVote
    \/ ScoreResolved(RawScores)
    \/ ScoreRejected
    \/ HandleReset

Spec == Init /\ [][Next]_vars

\* ------------------------------------------------- the uninterrupted debate
\* No click on a skip button, and every audio request, decode and playback
\* completes; the service answers with text.
NextUninterrupted ==
    \/ SetQuestion
    \/ StartDebateBlank
    \/ StartDebate
    \/ SidesResolved
    \/ SidesRejected
    \/ StreamOpened
    \/ StreamChunk(Fragments)
    \/ StreamChunk(Silent)
    \/ StreamFailed
    \/ StreamEnded
    \/ SummaryResolved
    \/ ComparisonResolved
    \/ SummaryRejected
    \/ ComparisonRejected
    \/ SpeechResolved
    \/ ResumeWithAudio
    \/ DecodeResolved
    \/ SourceEnded
    \/ ResumePlayed
    \/ HandleVote
    \/ ScoreResolved(RawScores)
    \/ ScoreRejected
    \/ HandleReset

\* The event loop runs every continuation that is queued, and in this run every
\* audio request, decode and playback completes.
PlaybackCompletes ==
    /\ WF_vars(SpeechResolved)
    /\ WF_vars(ResumeWithAudio)
    /\ WF_vars(DecodeResolved)
    /\ WF_vars(SourceEnded)
    /\ WF_vars(ResumePlayed)

FairSpec == Init /\ [][NextUninterrupted]_vars /\ PlaybackCompletes

\* PART 1 alone, with streams that carry text and citations: the runs of
\* handleStartDebate up to the await of Promise.all.
NextScript ==
    \/ SetQuestion
    \/ StartDebateBlank
    \/ StartDebate
    \/ SidesResolved
    \/ SidesRejected
    \/ StreamOpened
    \/ StreamChunk(Cited)
    \/ StreamFailed
    \/ StreamEnded

ScriptSpec == Init /\ [][NextScript]_vars

\* The debates that run undisturbed up to the vote, with a judge that may answer
\* with any of the lists of Sheets.
NextJudge ==
    \/ SetQuestion
    \/ StartDebateBlank
    \/ StartDebate
    \/ SidesResolved
    \/ SidesRejected
    \/ StreamOpened
    \/ StreamChunk(Silent)
    \/ StreamFailed
    \/ StreamEnded
    \/ SummaryResolved
    \/ ComparisonResolved
    \/ SummaryRejected
    \/ ComparisonRejected
    \/ SpeechResolved
    \/ ResumeWithAudio
    \/ DecodeResolved
    \/ SourceEnded
    \/ ResumePlayed
    \/ HandleVote
    \/ ScoreResolved(JudgeAnswers)
    \/ ScoreRejected
    \/ HandleReset

JudgeSpec == Init /\ [][NextJudge]_vars

\* ------------------------------------- the first App: playback with pipelining

\* The state the first App does not have
interruptVars == <<comparison, userVote, scoreData, currentAudioSourceRef, isSkippedRef,
                   skipTrigger, race, comparisonReq, stopped, skips>>

\* handleStartDebate of the first App up to its await of getDebateSides
StartDebateV1 ==
    /\ phase = IDLE
    /\ Quiet
    /\ Trim(question) # <<>>
    /\ error' = NULL
    /\ phase' = ANALYZING
    /\ messages' = <<>>
    /\ speakingMessageIndex' = NoIndex
    /\ summary' = NULL
    /\ pc' = "sides"
    /\ audioRequests' = <<>>
    /\ UNCHANGED <<question, audioContextRef, textVars, i, summaryReq, audioVars,
                   nextAudioPromise, audioResults, interruptVars>>

\* One chunk of the stream: the body of the for-await loop of the first App
StreamChunkV1(fragments) ==
    /\ pc = "stream"
    /\ \E chunk \in fragments :
        /\ delivered + Len(received) < MaxChunks
        /\ TextLen(generatedMessages) + Len(fullText) + Len(chunk.text) <= MaxText
        /\ received' = Append(received, chunk)
        /\ fullText' = fullText \o chunk.text
        /\ messages' = [messages EXCEPT ![placeholderIndex] =
                            [@ EXCEPT !.text = fullText \o chunk.text]]
    /\ UNCHANGED <<phase, question, error, speakingMessageIndex, summary,
                   audioContextRef, pc, generatedMessages, currentHistory, sources,
                   sourceUris, delivered, turn, i, summaryReq, audioVars, pipelineVars,
                   interruptVars>>

\* The stream ends in the first App: the turn's message is finalized; then the next
\* turn is opened or, after the last turn, PART 2 awaits generateDebateSummary.
StreamEndedV1 ==
    /\ pc = "stream"
    /\ LET final == finalMessage(turn.persona, fullText, <<>>)
           generated == Append(generatedMessages, final)
           msgs == [messages EXCEPT ![placeholderIndex] = final]
       IN
        /\ generatedMessages' = generated
        /\ currentHistory' = Append(currentHistory, final)
        /\ IF Len(generated) < Len(debateTurns)
           THEN /\ OpenTurn(msgs, generated)
                /\ delivered' = delivered + Len(received)
                /\ summaryReq' = summaryReq
           ELSE /\ messages' = msgs
                /\ fullText' = fullText
                /\ sources' = sources
                /\ sourceUris' = sourceUris
                /\ received' = <<>>
                /\ delivered' = 0
                /\ turn' = turn
                /\ summaryReq' = "pending"
                /\ pc' = "analysis"
    /\ UNCHANGED <<phase, question, error, speakingMessageIndex, summary,
                   audioContextRef, i, audioVars, pipelineVars, interruptVars>>

\* An exception leaves the pipelined loop and is caught by handleStartDebate; the
\* request nextAudioPromise holds is awaited by nobody any more
FailV1(message) ==
    /\ StartFailed(message)
    /\ nextAudioPromise' = NoPromise
    /\ audioResults' = {}
    /\ audioRequests' = audioRequests

\* The pipelined loop with the audio of turn k at hand: the audio of turn k+1 is
\* requested and kept in nextAudioPromise, then playAudio runs up to its await of
\* decodeAudioData
WithAudioV1(k, ph) ==
    /\ i' = k
    /\ speakingMessageIndex' = 3 + k
    /\ phase' = ph
    /\ error' = error
    /\ audioResults' = {}
    /\ IF k + 1 < Len(generatedMessages)
       THEN /\ nextAudioPromise' = k + 1
            /\ speechReqs' = (speechReqs \ {k}) \cup {k + 1}
            /\ audioRequests' = Append(audioRequests, k + 1)
       ELSE /\ nextAudioPromise' = NoPromise
            /\ speechReqs' = speechReqs \ {k}
            /\ audioRequests' = audioRequests
    /\ decodes' = decodes \cup {k}
    /\ pc' = "play"

\* A pipelined loop that asks for the audio of every turn at the head of its
\* iteration, whatever nextAudioPromise holds
IterationRequestsAgainV1(k, ph) ==
    IF k < Len(generatedMessages)
    THEN /\ i' = k
         /\ speakingMessageIndex' = 3 + k
         /\ phase' = ph
         /\ error' = error
         /\ pc' = "audio"
         /\ speechReqs' = speechReqs \cup {k}
         /\ audioRequests' = Append(audioRequests, k)
         /\ UNCHANGED <<nextAudioPromise, audioResults, decodes>>
    ELSE /\ speakingMessageIndex' = NoIndex
         /\ phase' = VOTING
         /\ error' = error
         /\ pc' = "idle"
         /\ i' = i
         /\ nextAudioPromise' = NoPromise
         /\ UNCHANGED <<audioResults, audioRequests, speechReqs, decodes>>

\* The pipelined loop from the head of iteration k to its next await: the audio of
\* turn k is requested when nextAudioPromise is null, else nextAudioPromise is
\* awaited, and the loop goes on at once when that request has settled already.
\* After the last turn: VOTING.
IterationV1(k, ph) ==
    IF k < Len(generatedMessages)
    THEN IF nextAudioPromise = NoPromise
         THEN /\ i' = k
              /\ speakingMessageIndex' = 3 + k
              /\ phase' = ph
              /\ error' = error
              /\ pc' = "audio"
              /\ speechReqs' = speechReqs \cup {k}
              /\ audioRequests' = Append(audioRequests, k)
              /\ UNCHANGED <<nextAudioPromise, audioResults, decodes>>
         ELSE IF [turn |-> nextAudioPromise, ok |-> TRUE] \in audioResults
         THEN WithAudioV1(nextAudioPromise, ph)
         ELSE IF [turn |-> nextAudioPromise, ok |-> FALSE] \in audioResults
         THEN /\ i' = k
              /\ speakingMessageIndex' = 3 + k
              /\ FailV1("Failed to generate audio for the debate.")
              /\ UNCHANGED <<speechReqs, decodes>>
         ELSE /\ i' = k
              /\ speakingMessageIndex' = 3 + k
              /\ phase' = ph
              /\ error' = error
              /\ pc' = "audio"
              /\ UNCHANGED <<nextAudioPromise, audioResults, audioRequests, speechReqs,
                             decodes>>
    ELSE /\ speakingMessageIndex' = NoIndex
         /\ phase' = VOTING
         /\ error' = error
         /\ pc' = "idle"
         /\ i' = i
         /\ nextAudioPromise' = NoPromise
         /\ UNCHANGED <<audioResults, audioRequests, speechReqs, decodes>>

\* PART 3 of the first App up to the first await of its loop: initializeAudio
\* creates the AudioContext or throws
EnterPlaybackV1 ==
    \/ /\ audioContextRef' = TRUE
       /\ IterationV1(0, DEBATING)
       /\ playing' = playing
    \/ /\ ~audioContextRef
       /\ audioContextRef' = FALSE
       /\ StartFailed(AudioContextError)
       /\ UNCHANGED <<speakingMessageIndex, i, speechReqs, decodes, playing, pipelineVars>>

\* generateDebateSummary resolves in the first App: the summary, then PART 3
SummaryResolvedV1 ==
    /\ pc = "analysis"
    /\ summaryReq = "pending"
    /\ summaryReq' = "resolved"
    /\ summary' = "summary"
    /\ EnterPlaybackV1
    /\ UNCHANGED <<question, messages, textVars, stopped, interruptVars>>

\* generateDebateSummary rejects in the first App: logged, then PART 3
SummaryRejectedV1 ==
    /\ pc = "analysis"
    /\ summaryReq = "pending"
    /\ summaryReq' = "rejected"
    /\ summary' = summary
    /\ EnterPlaybackV1
    /\ UNCHANGED <<question, messages, textVars, stopped, interruptVars>>

\* generateSpeech resolves: for the loop that awaits it, for nextAudioPromise while
\* the turn before is played, or for nobody
SpeechResolvedV1 ==
    /\ \E id \in speechReqs :
        IF pc = "audio" /\ id = i
        THEN WithAudioV1(i, phase)
        ELSE /\ speechReqs' = speechReqs \ {id}
             /\ audioResults' = IF id = nextAudioPromise
                                THEN {[turn |-> id, ok |-> TRUE]} ELSE audioResults
             /\ UNCHANGED <<phase, error, speakingMessageIndex, pc, i, decodes,
                            nextAudioPromise, audioRequests>>
    /\ UNCHANGED <<question, messages, summary, audioContextRef, textVars, summaryReq,
                   playing, interruptVars>>

\* generateSpeech rejects: the loop that awaits it throws; a rejection of
\* nextAudioPromise is met when the loop awaits it
SpeechRejectedV1 ==
    /\ \E id \in speechReqs :
        IF pc = "audio" /\ id = i
        THEN /\ FailV1("Failed to generate audio for the debate.")
             /\ speechReqs' = Aged(speechReqs \ {id})
             /\ UNCHANGED <<speakingMessageIndex, i, decodes>>
        ELSE /\ speechReqs' = speechReqs \ {id}
             /\ audioResults' = IF id = nextAudioPromise
                                THEN {[turn |-> id, ok |-> FALSE]} ELSE audioResults
             /\ UNCHANGED <<phase, error, speakingMessageIndex, pc, i, decodes,
                            nextAudioPromise, audioRequests>>
    /\ UNCHANGED <<question, messages, summary, audioContextRef, textVars, summaryReq,
                   playing, interruptVars>>

\* decodeAudioData resolves inside playAudio of the first App: a source is created
\* and started
DecodeResolvedV1 ==
    /\ \E id \in decodes :
        /\ decodes' = decodes \ {id}
        /\ playing' = playing \cup {id}
    /\ UNCHANGED <<uiVars, audioContextRef, currentAudioSourceRef, isSkippedRef,
                   skipTrigger, pc, textVars, i, race, analysisVars, speechReqs,
                   stopped, skips, pipelineVars>>

\* decodeAudioData rejects inside playAudio of the first App: the await of playAudio
\* throws, the exception leaves runDebate
DecodeRejectedV1 ==
    /\ \E id \in decodes :
        /\ decodes' = decodes \ {id}
        /\ FailV1("Unable to decode audio data")
        /\ speechReqs' = Aged(speechReqs)
    /\ UNCHANGED <<question, messages, speakingMessageIndex, summary, audioContextRef,
                   textVars, i, summaryReq, playing, interruptVars>>

\* source.onended in the first App: playAudio resolves and the loop goes on
SourceEndedV1 ==
    /\ pc = "play"
    /\ \E id \in playing :
        /\ playing' = playing \ {id}
        /\ IterationV1(i + 1, phase)
    /\ UNCHANGED <<question, messages, summary, audioContextRef, textVars, summaryReq,
                   interruptVars>>

NextPipeline ==
    \/ SetQuestion
    \/ StartDebateBlank
    \/ StartDebateV1
    \/ SidesResolved
    \/ SidesRejected
    \/ StreamOpened
    \/ StreamChunkV1(Fragments)
    \/ StreamChunkV1(Silent)
    \/ StreamFailed
    \/ StreamEndedV1
    \/ SummaryResolvedV1
    \/ SummaryRejectedV1
    \/ SpeechResolvedV1
    \/ SpeechRejectedV1
    \/ DecodeResolvedV1
    \/ DecodeRejectedV1
    \/ SourceEndedV1

\* The first App: handleStartDebate and runDebate with the pipelined playback loop
PipelineSpec == Init /\ [][NextPipeline]_vars

\* ------------------------------------------------------------------ claims

\* ---------------------------------------------- two clicks in one task
\* Both skip handlers run in the same task (two clicks dispatched from one script,
\* element.click() twice): the loop, which resumes in a microtask, resumes only
\* after both.

\* handleSkip, then handleSkipToVoting
HandleSkipThenSkipToVoting ==
    /\ phase = DEBATING
    /\ speakingMessageIndex # NoIndex
    /\ Quiet
    /\ Cardinality(skips) < MaxSkips
    /\ Becomes(handleSkipToVoting(handleSkip(Handled)))
    /\ skips' = skips \cup {[turn |-> i, at |-> pc]}
    /\ UNCHANGED <<question, messages, error, summary, comparison, userVote, scoreData,
                   audioContextRef, currentAudioSourceRef, skipTrigger, pc, textVars,
                   i, analysisVars, speechReqs, decodes>>
    /\ UNCHANGED pipelineVars

\* handleSkipToVoting, then handleSkip
HandleSkipToVotingThenSkip ==
    /\ phase = DEBATING
    /\ speakingMessageIndex # NoIndex
    /\ Quiet
    /\ Cardinality(skips) < MaxSkips
    /\ Becomes(handleSkip(handleSkipToVoting(Handled)))
    /\ skips' = skips \cup {[turn |-> i, at |-> pc]}
    /\ UNCHANGED <<question, messages, error, summary, comparison, userVote, scoreData,
                   audioContextRef, currentAudioSourceRef, skipTrigger, pc, textVars,
                   i, analysisVars, speechReqs, decodes>>
    /\ UNCHANGED pipelineVars

NextBatched ==
    \/ Next
    \/ HandleSkipThenSkipToVoting
    \/ HandleSkipToVotingThenSkip

BatchedSpec == Init /\ [][NextBatched]_vars


\* C1: in every reachable state at most one audio buffer source is started and
\* not yet ended or stopped: two buffers never sound at the same time.
C1_AtMostOneSource == Cardinality(playing) <= 1

\* C2: once skip-to-voting has been signaled, for the rest of that debate no audio
\* request is issued and no buffer source is started, whatever request or decode
\* that was in flight resolves afterwards: the requests in flight, the decodes in
\* flight and the sources that sound never become more.
C2_JumpIsSticky ==
    [][(isSkippedRef /\ isSkippedRef') =>
          /\ Cardinality(speechReqs') <= Cardinality(speechReqs)
          /\ Cardinality(decodes') <= Cardinality(decodes)
          /\ Cardinality(playing') <= Cardinality(playing)]_vars

\* C2 happens: skip-to-voting was signaled while the decode of the turn was in flight
C2_JumpDuringDecode == isSkippedRef /\ phase = VOTING /\ CurId \in decodes

\* C3: when the audio request of a turn rejects and skip-to-voting was not signaled,
\* the loop ends, an error is set and the phase does not become VOTING.
C3_AudioRejectionStaysOffVoting ==
    [][(pc = "audio" /\ race = "rejected" /\ ~isSkippedRef) =>
          /\ pc' = "idle"
          /\ error' # NULL
          /\ phase' # VOTING]_vars

\* C4: when skip-turn is clicked while the audio request of turn i is pending, the
\* loop goes on to turn i+1, or ends after the last turn, and no buffer of turn i is
\* ever decoded or started.
C4_SkippedPendingTurnNeverPlays ==
    /\ [](\A click \in skips :
            click.at = "audio" => click.turn \notin decodes \cup playing \cup stopped)
    /\ [][(pc = "audio" /\ race = "turn") =>
             IF i + 1 < Len(generatedMessages)
             THEN i' = i + 1 /\ pc' = "audio" /\ race' = "pending" /\ decodes' = decodes
             ELSE i' = i /\ pc' = "idle" /\ i \notin decodes']_vars

\* C4 happens: turn i was skipped while its audio was pending, the abandoned request
\* has settled since, and the loop awaits the playback of turn i+1
C4_SkippedWhilePending ==
    \E click \in skips :
        /\ click.at = "audio"
        /\ click.turn \notin speechReqs
        /\ i = click.turn + 1
        /\ pc = "play"
        /\ i \in playing

\* C5: skip-to-voting settles the race the loop awaits, the loop ends at its next
\* resumption without another request, and the phase is VOTING.
C5_JumpEndsLoop ==
    [][/\ (~isSkippedRef /\ isSkippedRef') =>
            (race' = "voting" /\ phase' = VOTING /\ speechReqs' = speechReqs)
       /\ (race = "voting") =>
            (pc' = "idle" /\ race' = "none" /\ phase' = VOTING /\ i' = i
               /\ Cardinality(speechReqs') <= Cardinality(speechReqs)
               /\ Cardinality(decodes') <= Cardinality(decodes)
               /\ Cardinality(playing') <= Cardinality(playing))]_vars

\* C5 happens: the loop was ended by skip-to-voting before its last turn
C5_LoopEndedByJump ==
    isSkippedRef /\ phase = VOTING /\ pc = "idle" /\ i < 5 /\ skipTrigger = NoHandoff

\* C6: skip-to-voting is idempotent: in any state, issuing it twice leaves what
\* issuing it once leaves, and once it has been issued, issuing it again changes
\* nothing (phase, flag, speaking index, error, loop progress, sources).
C6_JumpIsIdempotent ==
    /\ handleSkipToVoting(handleSkipToVoting(Handled)) = handleSkipToVoting(Handled)
    /\ isSkippedRef => handleSkipToVoting(Handled) = Handled

\* C6 happens: skip-to-voting has stopped a source and settled the race, and the
\* vote that followed is being scored
C6_JumpedOnce ==
    isSkippedRef /\ phase = SCORING /\ currentAudioSourceRef \in stopped

\* C7: with no interrupt, and every audio request and playback completing, a buffer
\* starts only for the turn the loop is at and with no other buffer sounding, the
\* loop leaves turn i only for turn i+1 and only when the playback of turn i has
\* ended, the phase becomes VOTING only after the playback of turn 5 has ended,
\* and a debate that is being played back eventually reaches VOTING.
C7_PlaysAllTurnsThenVoting ==
    /\ [][/\ (playing' # playing /\ playing' # {}) =>
                (playing = {} /\ playing' = {i} /\ pc = "play" /\ race = "pending")
          /\ (i' # i) =>
                \/ i' = i + 1 /\ race = "played" /\ pc = "play"
                \/ i' = 0 /\ pc = "analysis"
          /\ (phase = DEBATING /\ phase' # DEBATING) =>
                (phase' = VOTING /\ i = 5 /\ race = "played" /\ pc = "play")]_vars
    /\ (phase = DEBATING) ~> (phase = VOTING /\ pc = "idle" /\ i = 5)

\* C7 happens: the buffer of the last turn sounds, no error on the way
C7_LastTurnPlaying ==
    phase = DEBATING /\ i = 5 /\ playing = {5} /\ error = NULL

\* C8: when exactly one of the two analysis requests fails, the result of the other
\* is stored: VOTING is reached with that result present and only the failed one
\* absent.
C8_AnalysesFailIndependently ==
    phase = VOTING =>
        /\ (summaryReq = "resolved" /\ comparisonReq = "rejected") =>
              (summary # NULL /\ comparison = NULL)
        /\ (summaryReq = "rejected" /\ comparisonReq = "resolved") =>
              (summary = NULL /\ comparison # NULL)

\* The step in which a rejected analysis request rejects Promise.all
AnalysisFails ==
    /\ pc = "analysis"
    /\ \/ summaryReq = "pending" /\ summaryReq' = "rejected"
       \/ comparisonReq = "pending" /\ comparisonReq' = "rejected"

\* Playback of turn 0 starts: DEBATING, the loop at its first await, the audio of
\* turn 0 requested, the first generated message marked as spoken
PlaybackStarts ==
    /\ phase' = DEBATING
    /\ pc' = "audio"
    /\ race' = "pending"
    /\ i' = 0
    /\ 0 \in speechReqs'
    /\ speakingMessageIndex' = 3
    /\ error' = NULL

Spoken == SelectSeq(messages, LAMBDA m : m.persona # SYSTEM)

\* C10: whatever text is generated, the messages of the debaters follow the fixed
\* sequence of debateTurns: their personas are those of a prefix of it, the message
\* being generated is asked for with the persona and the stage at its position, and
\* once all text is generated there are the six of them.
C10_TurnsFollowFixedSequence ==
    /\ Len(Spoken) <= Len(debateTurns)
    /\ \A n \in 1..Len(Spoken) : Spoken[n].persona = debateTurns[n].persona
    /\ pc \in {"open", "stream"} =>
          (Len(Spoken) = Len(generatedMessages) + 1 /\ turn = debateTurns[Len(Spoken)])
    /\ pc \in {"analysis", "audio", "play"} =>
          (Len(Spoken) = Len(debateTurns) /\ turn = debateTurns[Len(debateTurns)])

\* C10 happens: the six turns are generated, one of them with text
C10_ScriptComplete ==
    pc = "analysis" /\ Len(Spoken) = 6 /\ TextLen(generatedMessages) > 0

\* The messages of the transcript that are still being streamed
Streaming(msgs) == { n \in DOMAIN msgs : msgs[n].persona # SYSTEM /\ msgs[n].isStreaming }

\* The step in which runDebate asks for the stream of a turn
RequestsStream == pc # "open" /\ pc' = "open"

\* C11: the turns' texts are generated strictly one after the other: at no time is
\* more than one message being streamed; while a stream is requested or open its
\* placeholder is the last message and every earlier turn is finalized and recorded;
\* and the stream of a turn is requested only in the step that follows the sides or
\* that ends the stream of the previous turn and finalizes its message.
C11_StreamsAreSequential ==
    /\ [](Cardinality(Streaming(messages)) <= 1)
    /\ [](pc \in {"open", "stream"} =>
            /\ Len(messages) = 3 + Len(generatedMessages) + 1
            /\ Streaming(messages) = {Len(messages)}
            /\ turn = debateTurns[Len(generatedMessages) + 1])
    /\ [][RequestsStream =>
            /\ pc \in {"sides", "stream"}
            /\ pc = "stream" =>
                /\ Len(generatedMessages') = Len(generatedMessages) + 1
                /\ messages'[Len(messages)] = generatedMessages'[Len(generatedMessages')]
                /\ ~messages'[Len(messages)].isStreaming
            /\ Len(messages') = 3 + Len(generatedMessages') + 1
            /\ Streaming(messages') = {Len(messages')}]_vars

\* The stream of the fourth turn is requested, three turns with text are finalized.
C11_FourthTurnRequested ==
    /\ pc = "open"
    /\ Len(generatedMessages) = 3
    /\ TextLen(generatedMessages) > 0

\* The text of a sequence of chunks
RECURSIVE Concat(_)
Concat(chunks) ==
    IF chunks = <<>> THEN <<>> ELSE Head(chunks).text \o Concat(Tail(chunks))

\* C12: the history handed to the stream request of turn N is the three SYSTEM
\* messages followed by the finalized messages of turns 0..N-1 in order, each with
\* isStreaming false and its complete text; it never holds a placeholder or a
\* partial text.
C12_HistoryIsFinalizedTurns ==
    /\ [](pc \in {"open", "stream"} =>
            /\ Len(currentHistory) = 3 + Len(generatedMessages)
            /\ \A n \in 1..3 :
                /\ currentHistory[n].persona = SYSTEM
                /\ currentHistory[n] = messages[n]
            /\ \A n \in 1..Len(generatedMessages) :
                /\ currentHistory[3 + n] = generatedMessages[n]
                /\ currentHistory[3 + n] = messages[3 + n]
                /\ currentHistory[3 + n].persona = debateTurns[n].persona
                /\ ~currentHistory[3 + n].isStreaming)
    /\ [][RequestsStream /\ pc = "stream" =>
            /\ SubSeq(currentHistory', 1, Len(currentHistory)) = currentHistory
            /\ currentHistory'[Len(currentHistory')].text = Concat(received)
            /\ currentHistory'[Len(currentHistory')].text = fullText]_vars

\* The third turn is requested with a history whose two turns have text.
C12_HistoryWithTwoTurns ==
    /\ pc = "open"
    /\ Len(currentHistory) = 5
    /\ currentHistory[4].text # <<>>
    /\ currentHistory[5].text # <<>>

\* All six turns are in the transcript and none of them is being streamed
AllTurnsFinalized(msgs) == Len(Spoken) = 6 /\ Streaming(msgs) = {} /\ Len(msgs) = 9

\* C13: audio is requested and the phase is DEBATING only once the messages of all
\* six turns are generated and finalized: in every state with phase DEBATING the
\* transcript holds the six finalized turns, the phase becomes DEBATING only from
\* the analysis, and a step that issues an audio request of the running debate
\* starts from six generated messages, all finalized in the transcript.
C13_TextBeforeAudio ==
    /\ [](phase = DEBATING =>
            /\ AllTurnsFinalized(messages)
            /\ Len(generatedMessages) = 6)
    /\ [][(phase # DEBATING /\ phase' = DEBATING) =>
               (pc = "analysis" /\ AllTurnsFinalized(messages))]_vars
    /\ [][(speechReqs' \ (speechReqs \cup {Old}) # {}) =>
               /\ AllTurnsFinalized(messages)
               /\ Len(generatedMessages) = 6
               /\ phase' = DEBATING
               /\ pc \in {"analysis", "audio", "play"}]_vars

\* The audio of the first turn is requested: the phase is DEBATING.
C13_FirstAudioRequested ==
    /\ phase = DEBATING
    /\ pc = "audio"
    /\ i = 0
    /\ 0 \in speechReqs

\* C14: while a turn is streamed, once a fragment has arrived the text of its
\* message is the concatenation of the texts of the fragments received so far, in
\* arrival order; the text of the finalized message is the concatenation of all
\* fragments of the stream, the empty text when the stream had none.
C14_TextIsConcatenation ==
    /\ [](pc = "stream" /\ received # <<>> =>
            /\ messages[placeholderIndex].text = Concat(received)
            /\ messages[placeholderIndex].isStreaming)
    /\ [][(pc = "stream" /\ Len(generatedMessages') = Len(generatedMessages) + 1) =>
            /\ messages'[placeholderIndex].text = Concat(received)
            /\ ~messages'[placeholderIndex].isStreaming
            /\ received = <<>> => messages'[placeholderIndex].text = <<>>]_vars

\* Two fragments with different texts have arrived.
C14_TwoFragmentsShown ==
    /\ pc = "stream"
    /\ Len(received) = 2
    /\ messages[placeholderIndex].text = <<"a", "b">>

\* The citation candidates of a sequence of chunks, in arrival order
RECURSIVE Candidates(_)
Candidates(chunks) ==
    IF chunks = <<>> THEN <<>> ELSE Head(chunks).web \o Candidates(Tail(chunks))

\* The place of the first candidate with the uri
FirstSeen(cands, uri) ==
    CHOOSE n \in DOMAIN cands :
        /\ cands[n].uri = uri
        /\ \A k \in 1..(n - 1) : cands[k].uri # uri

\* The label a candidate is listed with
Label(cand) == IF cand.title # "" THEN cand.title ELSE cand.uri

\* list holds one citation for each uri of cands, in the order in which the uris
\* were first seen and with the label of the candidate first seen
ListsFirstSeen(list, cands) ==
    /\ \A a, b \in DOMAIN list : a # b => list[a].uri # list[b].uri
    /\ { list[n].uri : n \in DOMAIN list } = { cands[n].uri : n \in DOMAIN cands } \ {""}
    /\ \A n \in DOMAIN list : list[n].title = Label(cands[FirstSeen(cands, list[n].uri)])
    /\ \A a, b \in DOMAIN list :
          a < b => FirstSeen(cands, list[a].uri) < FirstSeen(cands, list[b].uri)

\* C15: a citation candidate (one that has a uri) is appended to the citation list
\* of the message being streamed if and only if its uri was not seen before in
\* that message: at every moment the list holds, for the candidates received so
\* far, one citation per uri, in first-seen order and with the first-seen label;
\* the list never shrinks while the turn is streamed and the finalized message
\* keeps it.
C15_CitationsAreFirstSeen ==
    /\ [](pc = "stream" =>
            /\ ListsFirstSeen(sources, Candidates(received))
            /\ sourceUris = { sources[n].uri : n \in DOMAIN sources }
            /\ received # <<>> => messages[placeholderIndex].sources = sources)
    /\ [][(pc = "stream" /\ pc' = "stream") =>
            /\ Len(sources') >= Len(sources)
            /\ SubSeq(sources', 1, Len(sources)) = sources]_vars
    /\ [][(pc = "stream" /\ Len(generatedMessages') = Len(generatedMessages) + 1) =>
            /\ messages'[placeholderIndex].sources = sources
            /\ ListsFirstSeen(messages'[placeholderIndex].sources, Candidates(received))]_vars

\* Two candidates with the same uri and different labels have arrived: one citation.
C15_DuplicateDropped ==
    /\ pc = "stream"
    /\ Len(received) = 2
    /\ Candidates(received) = << Web("u", "t"), Web("u", "s") >>
    /\ messages[placeholderIndex].sources = << [uri |-> "u", title |-> "t"] >>

\* The step in which the stream of a turn fails, on opening or after some chunks
StreamFails ==
    /\ pc \in {"open", "stream"}
    /\ error' # error

\* A start that a failed stream has aborted, as long as no new debate is started
Aborted == pc = "idle" /\ Streaming(messages) # {}

\* C16: when the stream of a turn fails, the start is aborted: the phase is IDLE and
\* the error is set, the transcript is left as it was (the turns generated so far
\* stay, the failed turn's message is still marked as streaming), and no further
\* turn, no analysis and no audio is requested: nothing is requested until the
\* user starts another debate.
C16_StreamFailureAborts ==
    /\ [][StreamFails =>
            /\ phase' = IDLE
            /\ error' # NULL
            /\ messages' = messages
            /\ generatedMessages' = generatedMessages
            /\ Streaming(messages') = {Len(messages')}
            /\ UNCHANGED <<summaryReq, comparisonReq, speechReqs>>
            /\ Aborted']_vars
    /\ [](Aborted => phase = IDLE /\ error # NULL)
    /\ [][Aborted =>
            \/ /\ pc' = "idle"
               /\ messages' = messages
               /\ summaryReq' = "pending" => summaryReq = "pending"
               /\ comparisonReq' = "pending" => comparisonReq = "pending"
               /\ speechReqs' \subseteq speechReqs
            \/ /\ pc' = "sides"
               /\ messages' = <<>>]_vars

\* The stream of the third turn has failed after a chunk: two turns and a partial
\* third are left in the transcript.
C16_FailedMidStream ==
    /\ Aborted
    /\ Len(generatedMessages) = 2
    /\ Len(messages) = 6
    /\ messages[6].text = Str("a")
    /\ error = "Failed to start debate."

Sides == {Logos, Pathos}

\* The list names each of the eight criteria of scoreWeights once, as they are
\* written there, and every raw score is score (in points)
UniformRubric(scores, score) ==
    /\ Len(scores) = 8
    /\ { scores[n].criteria : n \in DOMAIN scores } = Range(WeightKeys)
    /\ \A n \in DOMAIN scores : scores[n].score = 100 * score

\* C17: when the eight score items of a side name the eight canonical criteria, one
\* each, and all raw scores are the same whole number s of 0..5, the side's final
\* score is s; when all raw scores of both sides are 5, both final scores are 5.00
\* and the winner is TIE.
C17_UniformScoreIsFinalScore ==
    phase = FINISHED =>
        /\ \A side \in Sides : \A score \in 0..5 :
              UniformRubric(scoreData[side], score) =>
                  scoreData.finalScores[side] = 100 * score
        /\ (UniformRubric(scoreData[Logos], 5) /\ UniformRubric(scoreData[Pathos], 5)) =>
              /\ scoreData.finalScores = [Logos |-> 500, Pathos |-> 500]
              /\ scoreData.winner = "TIE"

\* The judge gave 5 for every criterion to both sides.
C17_AllFives ==
    /\ phase = FINISHED
    /\ UniformRubric(scoreData[Logos], 5)
    /\ UniformRubric(scoreData[Pathos], 5)

\* letters and digits
IsAlphanumeric(c) == c \in Range(Upper) \cup Range(Lower) \cup Digits

\* s without the characters that are neither alphanumeric nor white space
RECURSIVE Alphanumerics(_)
Alphanumerics(s) ==
    IF s = <<>> THEN <<>>
    ELSE IF IsAlphanumeric(Head(s)) \/ IsSpace(Head(s))
         THEN <<Head(s)>> \o Alphanumerics(Tail(s))
         ELSE Alphanumerics(Tail(s))

\* The canonical criterion that criteria names when letter case and the characters
\* that are neither alphanumeric nor white space are ignored; 0 when it names none
Canonical(criteria) ==
    LET hits == { k \in DOMAIN WeightKeys :
                    toLowerCase(Alphanumerics(criteria)) = LowerKeys[k] }
    IN IF hits = {} THEN 0 ELSE CHOOSE k \in hits : TRUE

\* The weighted sum of the items that name a canonical criterion in that sense
RECURSIVE CanonicalTotal(_)
CanonicalTotal(scores) ==
    IF scores = <<>> THEN 0
    ELSE (IF Canonical(Head(scores).criteria) # 0
          THEN Head(scores).score * WeightValues[Canonical(Head(scores).criteria)]
          ELSE 0) + CanonicalTotal(Tail(scores))

\* C18: a score item whose criterion differs from a canonical criterion only in
\* letter case and in characters that are neither alphanumeric nor white space
\* counts for that criterion: the final score of each side is the rounded sum of
\* raw score times weight over the items that name a canonical criterion in that
\* sense.
C18_SkewedNamesCount ==
    phase = FINISHED =>
        \A side \in Sides :
            scoreData.finalScores[side] \in toFixed2(CanonicalTotal(scoreData[side]))

\* The same for the answers in which no criterion holds an underscore.
C18_SkewedNamesCountButUnderscore ==
    (phase = FINISHED /\ \A side \in Sides : \A n \in DOMAIN scoreData[side] :
                            "_" \notin Range(scoreData[side][n].criteria)) =>
        \A side \in Sides :
            scoreData.finalScores[side] \in toFixed2(CanonicalTotal(scoreData[side]))

\* The list without its n-th item
Removed(scores, n) == SubSeq(scores, 1, n - 1) \o SubSeq(scores, n + 1, Len(scores))

\* C19: a score item whose criterion names no canonical criterion, even when case
\* and punctuation are ignored, adds nothing and raises no error: the verdict is
\* stored without an error, and the side's total and final score are those of the
\* list without that item.
C19_UnknownCriterionCountsZero ==
    /\ [](phase = FINISHED =>
            \A side \in Sides : \A n \in DOMAIN scoreData[side] :
                Canonical(scoreData[side][n].criteria) = 0 =>
                    /\ Total(scoreData[side]) = Total(Removed(scoreData[side], n))
                    /\ scoreData.finalScores[side]
                           \in calculateFinalScore(Removed(scoreData[side], n)))
    /\ [][(pc = "score" /\ phase' = FINISHED) => error' = error]_vars

\* The judge scored an item "Bonus" for Logos, next to the rubric.
C19_BonusItemScored ==
    /\ phase = FINISHED
    /\ error = NULL
    /\ Len(scoreData[Logos]) = 9
    /\ scoreData[Logos][9].criteria = <<"B","o","n","u","s">>
    /\ scoreData[Logos][9].score > 0

\* C20: the winner of the stored verdict is Logos iff the final score of Logos is
\* greater than that of Pathos, Pathos iff it is smaller, and TIE iff the two
\* rounded final scores are equal; the final scores stored are the rounded totals
\* of the two lists stored, the values that were compared.
C20_WinnerFollowsRoundedScores ==
    phase = FINISHED =>
        LET logosFinal == scoreData.finalScores[Logos]
            pathosFinal == scoreData.finalScores[Pathos]
        IN /\ logosFinal \in calculateFinalScore(scoreData[Logos])
           /\ pathosFinal \in calculateFinalScore(scoreData[Pathos])
           /\ scoreData.winner = Logos <=> logosFinal > pathosFinal
           /\ scoreData.winner = Pathos <=> pathosFinal > logosFinal
           /\ scoreData.winner = "TIE" <=> logosFinal = pathosFinal
           /\ scoreData.winner \in {Logos, Pathos, "TIE"}

\* A tie of two sides whose totals differ and are equal once rounded.
C20_TieAfterRounding ==
    /\ phase = FINISHED
    /\ scoreData.winner = "TIE"
    /\ Total(scoreData[Logos]) > Total(scoreData[Pathos])

\* C21: when the scoring request fails after a vote, the phase goes from SCORING
\* back to VOTING with an error, no verdict is stored, the side the user chose is
\* kept, and the vote buttons work again: as long as that error is shown in VOTING
\* a vote can be cast, which asks the judge again.
C21_ScoringFailureRevertsToVoting ==
    /\ [][(pc = "score" /\ pc' # "score" /\ phase' # FINISHED) =>
            /\ phase = SCORING
            /\ phase' = VOTING
            /\ error' = "The AI Judge failed to score the debate. Please try again."
            /\ scoreData' = NoScoreData
            /\ userVote' = userVote
            /\ userVote' \in Sides
            /\ UNCHANGED <<messages, summary, comparison>>]_vars
    /\ []((/\ phase = VOTING
            /\ error = "The AI Judge failed to score the debate. Please try again.")
           => ENABLED HandleVote)
    /\ [][(/\ phase = VOTING
            /\ error = "The AI Judge failed to score the debate. Please try again."
            /\ phase' = SCORING) =>
            (pc' = "score" /\ scoreData' = NoScoreData)]_vars

\* A vote after a failed scoring was scored: the verdict is there, the error of the
\* failed attempt still set.
C21_RetryFinished ==
    /\ phase = FINISHED
    /\ error = "The AI Judge failed to score the debate. Please try again."
    /\ scoreData # NoScoreData
    /\ userVote = Pathos

\* C22: for a list of eight score items of a side whose raw scores are all between
\* 0 and 5, whatever the criteria are called, the side's final score is between 0
\* and 5, the maximum the results screen states.
C22_FinalScoreAtMostFive ==
    LET EightInRange(scores) ==
            /\ Len(scores) = 8
            /\ \A n \in DOMAIN scores : scores[n].score \in 0..500
    IN phase = FINISHED =>
           \A side \in Sides :
               EightInRange(scoreData[side]) => scoreData.finalScores[side] \in 0..500

\* C23: a failure of the audio request or of the playback of a turn changes only the
\* playback loop: neither the rejection nor the catch block that handles it changes
\* the message list, the generated messages, the summary or the comparison; the
\* catch block leaves the loop with the phase VOTING, and in VOTING with the audio
\* error shown the vote handler is enabled whenever summary and comparison are
\* there (the buttons are disabled without them, audio failure or not).
C23_AudioFailureLeavesTextAndVote ==
    /\ [][((race = "pending" /\ race' = "rejected") \/ race = "rejected") =>
            UNCHANGED <<messages, generatedMessages, summary, comparison, userVote,
                        scoreData, question>>]_vars
    /\ [][race = "rejected" =>
            (phase' = VOTING /\ pc' = "idle" /\ race' = "none")]_vars
    /\ [][(race = "rejected" /\ ~isSkippedRef) =>
            error' \in {"Failed to generate audio for a turn.",
                        "Failed to play audio for a turn."}]_vars
    /\ []((/\ phase = VOTING
            /\ error \in {"Failed to generate audio for a turn.",
                           "Failed to play audio for a turn."}
            /\ summary # NULL
            /\ comparison # NULL)
           => ENABLED HandleVote)

\* A vote was cast and scored after the audio of a turn had failed.
C23_VotedAfterAudioFailure ==
    /\ phase = FINISHED
    /\ error = "Failed to play audio for a turn."
    /\ scoreData # NoScoreData
    /\ Len(messages) = 9

\* C24: starting a debate with an empty or whitespace-only question sets an error
\* and changes nothing else: the phase stays IDLE, messages, summary, comparison and
\* the skip flag are as they were, no request is sent; and with such a question no
\* debate starts.
C24_BlankQuestionOnlySetsError ==
    /\ [][(phase = IDLE /\ Trim(question) = <<>> /\ error' # error) =>
            /\ error' = "Please enter a question to debate."
            /\ phase' = IDLE
            /\ pc' = "idle"
            /\ UNCHANGED <<phase, question, messages, speakingMessageIndex, summary,
                           comparison, userVote, scoreData, audioContextRef,
                           currentAudioSourceRef, isSkippedRef, skipTrigger, pc,
                           textVars, i, race, analysisVars, audioVars>>]_vars
    /\ []((phase = IDLE /\ Trim(question) = <<>>) => ~ENABLED StartDebate)
    /\ [][(phase = IDLE /\ Trim(question) = <<>>) => (phase' = IDLE /\ pc' = pc)]_vars

\* A start with a question of one blank was refused while the transcript of a
\* debate that failed is still there.
C24_BlankRefusedOverTranscript ==
    /\ phase = IDLE
    /\ error = "Please enter a question to debate."
    /\ question = <<" ">>
    /\ Len(messages) > 3

\* C25: when handleSkip is called while the buffer of turn i is sounding, that buffer
\* is stopped in the same step, and the loop resumes with turn i+1 (its audio is
\* requested) or, after the last turn, ends in VOTING.
C25_SkipStopsBufferAndAdvances ==
    /\ [][(pc = "play" /\ i \in playing /\ race = "pending" /\ race' = "turn") =>
            (i \notin playing' /\ i \in stopped' /\ pc' = pc /\ i' = i)]_vars
    /\ [][(race = "turn" /\ pc = "play") =>
            IF i + 1 < Len(debateTurns)
            THEN /\ i' = i + 1
                 /\ pc' = "audio"
                 /\ race' = "pending"
                 /\ (i + 1) \in speechReqs'
                 /\ speakingMessageIndex' = 3 + i + 1
                 /\ phase' = DEBATING
            ELSE /\ pc' = "idle"
                 /\ phase' = VOTING]_vars

\* C26: an audio request abandoned by an interrupt is ignored for good: when the
\* request of a turn resolves or rejects after handleSkip or handleSkipToVoting won
\* the race of that turn, no playback starts, no error is set, and the phase, the
\* spoken message, the turn the loop is at, its position and the race it awaits are
\* unchanged.  (Between two continuations of the loop only the settling of a
\* request removes one from those in flight.)
C26_AbandonedRequestIsIgnored ==
    [][(/\ Quiet
        /\ speechReqs' # speechReqs
        /\ speechReqs' \subseteq speechReqs
        /\ \A id \in speechReqs \ speechReqs' : ~AwaitsSpeech(id)) =>
            UNCHANGED <<decodes, playing, stopped, currentAudioSourceRef, error, phase,
                        speakingMessageIndex, i, pc, race, skipTrigger, isSkippedRef,
                        messages>>]_vars

\* The first turn was skipped while its audio was pending and its request has
\* settled since; the loop awaits the audio of the second turn.
C26_AbandonedRequestSettled ==
    /\ [turn |-> 0, at |-> "audio"] \in skips
    /\ i = 1
    /\ pc = "audio"
    /\ race = "pending"
    /\ speechReqs = {1}

\* C27 as stated: a new interrupt handoff is armed before each turn, and again at
\* the start of the playback race of a turn, which is run against that new handoff
\* and not against the one raced while the audio was pending.
C27_FreshHandoffPerRace ==
    /\ [][(pc' = "audio" /\ (pc # "audio" \/ i' # i)) => skipTrigger' \notin {skipTrigger, NoHandoff}]_vars
    /\ [][(pc = "audio" /\ pc' = "play") => skipTrigger' \notin {skipTrigger, NoHandoff}]_vars

\* C27: a new interrupt handoff is armed before each turn, and both races of the
\* turn, for its audio and for its playback, are run against that one handoff: none
\* is armed at the start of the playback race, and the resolver the skip handlers
\* call is that of the promise the loop is racing.
C27_OneHandoffPerTurn ==
    /\ [][(pc' = "audio" /\ (pc # "audio" \/ i' # i)) =>
            (skipTrigger' \notin {skipTrigger, NoHandoff} /\ skipTrigger' = i')]_vars
    /\ [][(pc = "audio" /\ pc' = "play") => (skipTrigger' = skipTrigger /\ i' = i)]_vars
    /\ [](pc \in {"audio", "play"} => skipTrigger = interruptPromise(Handled))

\* The playback of the fourth turn is raced against the handoff armed at the head
\* of its iteration.
C27_PlayingAgainstTurnHandoff ==
    /\ pc = "play"
    /\ race = "pending"
    /\ i = 3
    /\ skipTrigger = 3
    /\ 3 \in playing

\* C29: the skip flag isSkippedRef is written once per debate run: it goes from
\* false to true only by skip-to-voting during DEBATING, stays true for the rest of
\* the run, and goes back to false only when a new debate is started: by the
\* "Start a New Debate" button (handleReset) or by handleStartDebate.
C29_SkipFlagIsWriteOnce ==
    /\ [][(~isSkippedRef /\ isSkippedRef') => (phase = DEBATING /\ phase' = VOTING)]_vars
    /\ [][(isSkippedRef /\ ~isSkippedRef') =>
            \/ (phase = FINISHED /\ phase' = IDLE /\ messages' = <<>>)
            \/ (phase = IDLE /\ phase' = ANALYZING)]_vars
    /\ [][(isSkippedRef /\ phase' # IDLE) => isSkippedRef']_vars
    /\ [][(phase = IDLE /\ phase' = ANALYZING) => ~isSkippedRef']_vars

\* The flag set by skip-to-voting during the third turn is still set when the
\* verdict is shown.
C29_FlagKeptToTheResults ==
    /\ isSkippedRef
    /\ phase = FINISHED
    /\ i = 2
    /\ scoreData # NoScoreData

\* C30: during a run, once the stances are known, the message list is the three
\* SYSTEM messages followed by one message per started turn, in the order of
\* debateTurns, and never holds more than 9 messages; a step of the run appends
\* messages or updates the last one in place: no message is removed or moved, no
\* earlier message is changed.
C30_MessageListShape ==
    /\ []((phase # IDLE /\ pc # "sides") =>
            /\ Len(messages) = 3 + Len(generatedMessages)
                                  + (IF pc \in {"open", "stream"} THEN 1 ELSE 0)
            /\ Len(messages) <= 3 + Len(debateTurns)
            /\ \E s \in StancePairs :
                  SubSeq(messages, 1, 3) = systemMessages(question, s.sideA, s.sideB)
            /\ \A n \in 4..Len(messages) :
                  messages[n].persona = debateTurns[n - 3].persona
            /\ \A n \in 4..(3 + Len(generatedMessages)) :
                  messages[n] = generatedMessages[n - 3])
    /\ [][(phase # IDLE /\ phase' # IDLE) =>
            /\ Len(messages') >= Len(messages)
            /\ \A n \in 1..Len(messages) :
                  /\ messages'[n].persona = messages[n].persona
                  /\ n < Len(messages) => messages'[n] = messages[n]]_vars

\* The placeholder of the sixth turn is the ninth message and was updated by a chunk.
C30_NineMessages ==
    /\ pc = "stream"
    /\ Len(messages) = 9
    /\ messages[9].isStreaming
    /\ received # <<>>
    /\ messages[9].text = fullText
    /\ messages[9].persona = Pathos

\* C28: in the playback loop with pipelining the audio of every turn is requested
\* exactly once: the requests of a run are for the turns 0, 1, 2, ... in order, none
\* twice, and all six when the loop is through; the request for turn i+1 is issued
\* in the step in which the loop takes the audio of turn i, before the playback of
\* turn i, and is held while turn i is played; and an iteration after the first
\* issues no request for its own turn: it awaits the request that was issued
\* ahead.
C28_EveryTurnRequestedOnce ==
    /\ [](\A n \in DOMAIN audioRequests : audioRequests[n] = n - 1)
    /\ [](phase = VOTING => audioRequests = <<0, 1, 2, 3, 4, 5>>)
    /\ []((pc = "audio" /\ i >= 1) =>
            (nextAudioPromise = i /\ Len(audioRequests) = i + 1))
    /\ []((pc = "play" /\ i + 1 < Len(debateTurns)) =>
            (nextAudioPromise = i + 1 /\ Len(audioRequests) = i + 2))
    /\ [][(pc' = "play" /\ (pc # "play" \/ i' # i)) =>
            audioRequests' = IF i' + 1 < Len(debateTurns)
                             THEN Append(audioRequests, i' + 1) ELSE audioRequests]_vars
    /\ [][(pc = "play" /\ i' = i + 1) =>
            audioRequests' \in {audioRequests, Append(audioRequests, i' + 1)}]_vars

\* The third turn sounds and the audio of the fourth, requested ahead, has arrived.
C28_NextAudioArrivedDuringPlayback ==
    /\ pc = "play"
    /\ i = 2
    /\ playing = {2}
    /\ nextAudioPromise = 3
    /\ audioResults = {[turn |-> 3, ok |-> TRUE]}
    /\ audioRequests = <<0, 1, 2, 3>>

\* C31: whenever the phase is not DEBATING no audio buffer source sounds: every source
\* the playback loop started has ended or was stopped when the phase leaves DEBATING,
\* and no source is started afterwards.
C31_SilentOutsideDebating ==
    /\ [](phase # DEBATING => playing = {})
    /\ [][phase # DEBATING => Cardinality(playing') <= Cardinality(playing)]_vars

\* C32: the vote is taken in VOTING only when summary and comparison are both there;
\* a debate whose post-debate analysis failed has neither, and once it is in VOTING
\* the phase stays VOTING for ever: no vote is enabled, and SCORING, FINISHED and
\* IDLE are not reached.
C32_FailedAnalysisStaysInVoting ==
    /\ [][(phase = VOTING /\ phase' = SCORING) => (summary # NULL /\ comparison # NULL)]_vars
    /\ []((phase \in {DEBATING, VOTING} /\ "rejected" \in {summaryReq, comparisonReq}) =>
             (summary = NULL /\ comparison = NULL))
    /\ []((phase = VOTING /\ (summary = NULL \/ comparison = NULL)) => ~ENABLED HandleVote)
    /\ [][(phase = VOTING /\ (summary = NULL \/ comparison = NULL)) =>
             (phase' = VOTING /\ summary' = NULL /\ comparison' = NULL)]_vars

\* VOTING after a failed analysis whose other request resolved later
C32_StuckInVoting ==
    /\ phase = VOTING
    /\ pc = "idle"
    /\ summaryReq = "rejected"
    /\ comparisonReq = "resolved"
    /\ summary = NULL
    /\ comparison = NULL

\* C33: one click on the skip button while turn i is in its playback race advances
\* the loop by exactly one turn: the loop resumes at turn i + 1 (or ends in VOTING
\* after the last turn), a race is interrupted with 'turn' only by a click, the
\* onended of a source of another turn settles no race, and the playback of a turn
\* resolves only when the source of that turn has ended.
C33_OneSkipOneTurn ==
    /\ [][(race = "turn" /\ pc = "play") =>
             \/ i' = i + 1 /\ pc' = "audio" /\ race' = "pending" /\ skipTrigger' = i + 1
             \/ i + 1 = Len(debateTurns) /\ pc' = "idle" /\ phase' = VOTING]_vars
    /\ [][(race' = "turn" /\ race # "turn") => (skips' # skips /\ race = "pending")]_vars
    /\ [][(race = "pending" /\ \E id \in stopped : id # i /\ stopped' = stopped \ {id}) =>
             (race' = race /\ i' = i /\ pc' = pc /\ phase' = phase)]_vars
    /\ [][(pc = "play" /\ race = "pending" /\ race' = "played" /\ ~isSkippedRef) =>
             (i \in playing \cup stopped /\ i \notin playing' \cup stopped')]_vars

\* Turn 1 sounds after turn 0 was skipped during its playback, and the onended of
\* the stopped source of turn 0 has not been delivered yet
C33_StoppedSourceStillToEnd ==
    /\ skips = {[turn |-> 0, at |-> "play"]}
    /\ i = 1
    /\ pc = "play"
    /\ race = "pending"
    /\ 0 \in stopped
    /\ 1 \in playing

\* C34: when skip-turn and skip-to-voting are both issued during the same turn before
\* the loop resumes, in either order, the outcome is that of skip-to-voting: the
\* phase is VOTING and the loop ends at its resumption without an audio request
\* for a later turn.
C34_JumpWinsOverAdvance ==
    /\ [][(skips' # skips /\ skips' # {} /\ isSkippedRef' /\ ~isSkippedRef) =>
             /\ phase' = VOTING
             /\ speakingMessageIndex' = NoIndex
             /\ speechReqs' = speechReqs
             /\ race = "pending" => race' \in {"turn", "voting"}]_vars
    /\ [][(isSkippedRef /\ race \in {"turn", "voting"}) =>
             /\ pc' = "idle"
             /\ phase' = VOTING
             /\ i' = i
             /\ speechReqs' \subseteq {Old}
             /\ Cardinality(speechReqs') <= Cardinality(speechReqs)
             /\ Cardinality(decodes') <= Cardinality(decodes)]_vars
    /\ [][isSkippedRef => Cardinality(speechReqs') <= Cardinality(speechReqs)]_vars
    /\ [](isSkippedRef => phase \in {VOTING, SCORING, FINISHED})

\* Skip-turn resolved the handoff and skip-to-voting came in the same task
C34_AdvanceThenJumpBeforeResuming ==
    /\ isSkippedRef
    /\ race = "turn"
    /\ phase = VOTING
    /\ pc = "play"
    /\ i + 1 < Len(debateTurns)

\* C35: the playback loop requests audio in increasing turn order and each turn at
\* most once; turn 0 is requested when the loop starts and turn i + 1 only in the
\* resumption after turn i was played to its end or skipped; so every request in
\* flight but the one the loop awaits is of a turn that was skipped while its audio
\* was pending, and at most one request that was not abandoned is outstanding.
C35_RequestsInTurnOrder ==
    /\ []((pc \in {"audio", "play"}) =>
             \A id \in speechReqs : id = Old \/ (0 <= id /\ id <= i))
    /\ [][({id \in speechReqs' : id >= 0} \ speechReqs # {}) =>
             /\ {id \in speechReqs' : id >= 0} \ speechReqs = {i'}
             /\ pc' = "audio"
             /\ race' = "pending"
             /\ ~isSkippedRef
             /\ \/ pc = "analysis" /\ i' = 0
                \/ pc \in {"audio", "play"} /\ i' = i + 1 /\ race \in {"played", "turn"}]_vars
    /\ [][(pc' = "audio" /\ (pc # "audio" \/ i' # i)) =>
             (i' \in speechReqs' /\ i' \notin speechReqs)]_vars
    /\ [](\A id \in speechReqs :
             (id >= 0 /\ ~(pc = "audio" /\ id = i)) => [turn |-> id, at |-> "audio"] \in skips)
    /\ [](Cardinality({id \in speechReqs : id >= 0 /\ [turn |-> id, at |-> "audio"] \notin skips}) <= 1)

\* Turn 0 was skipped while its audio was pending and its request is still in
\* flight, turn 1 was played, the audio of turn 2 is awaited
C35_ThirdRequestAfterSkipAndPlay ==
    /\ pc = "audio"
    /\ race = "pending"
    /\ i = 2
    /\ speechReqs = {0, 2}
    /\ skips = {[turn |-> 0, at |-> "audio"]}

\* C36: the phase changes only along IDLE->ANALYZING, ANALYZING->IDLE (a failure,
\* with its error), ANALYZING->DEBATING, DEBATING->VOTING, DEBATING->IDLE (only the
\* audio initialisation failure), VOTING->SCORING, SCORING->FINISHED,
\* SCORING->VOTING (scoring failure) and FINISHED->IDLE (reset); once the phase is
\* VOTING or later, no step of the playback loop changes it.
C36_PhaseEdges ==
    /\ [][phase' = phase \/
           <<phase, phase'>> \in {<<IDLE, ANALYZING>>, <<ANALYZING, IDLE>>,
                                  <<ANALYZING, DEBATING>>, <<DEBATING, VOTING>>,
                                  <<DEBATING, IDLE>>, <<VOTING, SCORING>>,
                                  <<SCORING, FINISHED>>, <<SCORING, VOTING>>,
                                  <<FINISHED, IDLE>>}]_vars
    /\ [][(phase = ANALYZING /\ phase' = IDLE) => (error' # NULL /\ pc' = "idle")]_vars
    /\ [][(phase = DEBATING /\ phase' = IDLE) => error' = AudioContextError]_vars
    /\ [][(phase = SCORING /\ phase' = VOTING) => error' # NULL]_vars
    /\ [][(phase = FINISHED /\ phase' = IDLE) => (error' = NULL /\ messages' = <<>>)]_vars
    /\ [][(phase \in {VOTING, SCORING, FINISHED} /\ pc \in {"audio", "play"}) =>
             phase' = phase]_vars
    /\ [][(phase \in {VOTING, SCORING, FINISHED} /\ phase' # phase) =>
             (pc \in {"idle", "score"} /\ race = "none")]_vars

\* A second debate was started after the first went through playback, the vote,
\* the scoring and the reset
C36_SecondDebateAfterReset ==
    /\ phase = ANALYZING
    /\ audioContextRef
    /\ userVote = NULL
    /\ pc = "stream"

\* C37: speakingMessageIndex is non-null only while the phase is DEBATING, and it is
\* then 3 + i for the turn i the playback loop is at; in every other phase it is
\* null, also after skip-to-voting and after an audio failure.
C37_SpeakingIndexOnlyWhileDebating ==
    /\ speakingMessageIndex # NoIndex =>
          (phase = DEBATING /\ speakingMessageIndex = 3 + i /\ pc \in {"audio", "play"})
    /\ phase # DEBATING => speakingMessageIndex = NoIndex
    /\ isSkippedRef => speakingMessageIndex = NoIndex
    /\ (phase = DEBATING /\ pc \in {"audio", "play"}) =>
          (speakingMessageIndex = 3 + i /\ i < Len(debateTurns))

\* VOTING after the playback of the third turn failed
C37_NullAfterAudioFailure ==
    /\ phase = VOTING
    /\ error = "Failed to play audio for a turn."
    /\ i = 2
    /\ speakingMessageIndex = NoIndex

\* C38: at any time at most one message has isStreaming true, and it is the last
\* message of the list; every earlier turn message is finalized: isStreaming false,
\* and its text, set in the step that ended its stream, is the concatenation of
\* all fragments of that stream.
C38_OnlyLastMessageStreams ==
    /\ [](Cardinality(Streaming(messages)) <= 1)
    /\ [](Streaming(messages) \subseteq {Len(messages)})
    /\ [](\A n \in 4..(Len(messages) - 1) :
             /\ ~messages[n].isStreaming
             /\ messages[n] = generatedMessages[n - 3])
    /\ [](pc \in {"open", "stream"} => Streaming(messages) = {Len(messages)})
    /\ [][(pc = "stream" /\ pc' # "stream" /\ phase' # IDLE) =>
             /\ ~messages'[Len(messages)].isStreaming
             /\ messages'[Len(messages)].text = Concat(received)
             /\ generatedMessages' = Append(generatedMessages, messages'[Len(messages)])]_vars

\* The third turn is being streamed after two turns with text were finalized
C38_ThirdTurnStreaming ==
    /\ pc = "stream"
    /\ Len(messages) = 6
    /\ Streaming(messages) = {6}
    /\ messages[4].text # <<>>
    /\ messages[5].text # <<>>

\* C39: for every score item of the results, the weight shown in its row of the
\* table is the weight calculateFinalScore applied to it (none shown as 0): the
\* lookup of the display and the lookup of the aggregation resolve every
\* criterion string alike.
C39_ShownWeightIsAppliedWeight ==
    phase = FINISHED =>
        \A index \in DOMAIN scoreData.Logos :
            /\ shownWeight(scoreData.Logos[index].criteria) * scoreData.Logos[index].score
                  = Contribution(scoreData.Logos[index])
            /\ index \in DOMAIN scoreData.Pathos =>
                  shownWeight(scoreData.Logos[index].criteria) * scoreData.Pathos[index].score
                    = Contribution(scoreData.Pathos[index])

\* C40: an onended event clears currentAudioSourceRef only when it still holds the
\* source that ended: the reference is set to the source that was started last, the
\* onended of any other source leaves it alone, it becomes null only when the
\* source it holds has ended or at the reset, and so a click on skip-turn or
\* skip-to-voting stops the referenced source when it still sounds.
C40_OnendedClearsOnlyItsOwnSource ==
    /\ [][(Cardinality(playing') > Cardinality(playing) /\ decodes' # decodes) =>
             (currentAudioSourceRef' # NoSource /\ currentAudioSourceRef' \in playing'
              /\ currentAudioSourceRef' \notin Unref(playing) \cup Unref(stopped))]_vars
    /\ [][(/\ Quiet
            /\ phase' = phase
            /\ decodes' = decodes
            /\ isSkippedRef' = isSkippedRef
            /\ skips' = skips
            /\ \E id \in playing \cup stopped :
                  /\ id # currentAudioSourceRef
                  /\ playing' \cup stopped' = (playing \cup stopped) \ {id}) =>
             currentAudioSourceRef' = currentAudioSourceRef]_vars
    /\ [][(currentAudioSourceRef # NoSource /\ currentAudioSourceRef' = NoSource) =>
             \/ phase = FINISHED /\ phase' = IDLE
             \/ currentAudioSourceRef \notin playing' \cup stopped']_vars
    /\ []((currentAudioSourceRef # NoSource /\ currentAudioSourceRef \in playing) =>
             /\ currentAudioSourceRef \notin handleSkip(Handled).playing
             /\ currentAudioSourceRef \in handleSkip(Handled).stopped
             /\ ~isSkippedRef => currentAudioSourceRef \in handleSkipToVoting(Handled).stopped)

\* The source of turn 1 sounds and is the referenced one while the onended of the
\* stopped source of turn 0 is still to come
C40_NewerSourceReferenced ==
    /\ currentAudioSourceRef = 1
    /\ 1 \in playing
    /\ 0 \in stopped
    /\ i = 1
    /\ pc = "play"
    /\ ~isSkippedRef

====
